---- MODULE Spec2Model ----
(***************************************************************************)
(* A model of the NYC taxi Bronze/Silver pipeline:                         *)
(*   scripts/bronze_build.py  (build_bronze and its helpers),              *)
(*   scripts/common.py        (canonicalize),                              *)
(*   scripts/silver_split.py  (split_silver).                              *)
(*                                                                         *)
(* Representation.  A nullable column value is NULL (the empty tuple) or   *)
(* Some(v) (a one-element tuple).  Boolean expressions over columns are    *)
(* evaluated in Kleene logic, as polars evaluates them.  Timestamps are    *)
(* whole seconds since 2000-01-01 00:00, money is in cents, distance in    *)
(* hundredths of a mile, duration_min in sixtieths of a minute (seconds),  *)
(* speed_mph is the exact fraction <<numerator, denominator>> of miles per *)
(* hour.  Floating-point rounding is not modelled.                         *)
(***************************************************************************)
EXTENDS Integers, Sequences, FiniteSets, TLC

VARIABLES
    rawDir,     \* the raw input directory: a set of raw parquet files
    bronze,     \* the file at the Bronze output path: Absent or an artifact
    bpc,        \* build_bronze: "idle", "loop", "done", "fatal"
    files,      \* build_bronze: the sorted list of input files
    fidx,       \* build_bronze: index of the next file of the loop
    writer,     \* build_bronze: "none", "open", "closed"
    totals,     \* build_bronze: [in, written, dups]
    berr,       \* build_bronze: the error raised and the file its message names
    prior,      \* what the output path held when the current run began
    runs,       \* the number of build_bronze runs begun so far
    silver,     \* the five files of the Silver directory
    spc,        \* split_silver: "start", "written", "done", "fatal"
    report,     \* split_silver: what it printed or raised
    hashCaps,   \* the hash implementations the installed polars offers
    batch,      \* build_dup_key called on its own: the frames it is given
    keyed,      \* build_dup_key called on its own: what each call gave
    dest,       \* download: the file at the destination path
    tmp,        \* download: the file at the destination path + ".part"
    resp,       \* download: what the server and the connection will do
    dpc,        \* download: "idle", "start", "reading", "finally", "returned", "raised"
    derr        \* download: the exception that leaves it, or "none"

vars == <<rawDir, bronze, bpc, files, fidx, writer, totals, berr, prior, runs,
          silver, spc, report, hashCaps, batch, keyed, dest, tmp, resp, dpc, derr>>

bronzeVars == <<rawDir, bpc, files, fidx, writer, totals, berr, prior, runs>>
silverVars == <<silver, spc, report>>
keyVars == <<hashCaps, batch, keyed>>
downloadVars == <<dest, tmp, resp, dpc, derr>>

(***************************************************************************)
(* Nullable values and Kleene logic                                        *)
(***************************************************************************)
NULL == <<>>
Some(v) == <<v>>
Val(x) == x[1]
T == Some(TRUE)
F == Some(FALSE)
Tri == {T, F, NULL}

KNot(a) == IF a = NULL THEN NULL ELSE Some(~Val(a))
KOr(a, b) ==
    IF a = T \/ b = T THEN T
    ELSE IF a = NULL \/ b = NULL THEN NULL ELSE F
KAnd(a, b) ==
    IF a = F \/ b = F THEN F
    ELSE IF a = NULL \/ b = NULL THEN NULL ELSE T
IsNullE(x) == Some(x = NULL)
LtE(x, c) == IF x = NULL THEN NULL ELSE Some(Val(x) < c)
LeE(x, c) == IF x = NULL THEN NULL ELSE Some(Val(x) <= c)
GtE(x, c) == IF x = NULL THEN NULL ELSE Some(Val(x) > c)
GeE(x, c) == IF x = NULL THEN NULL ELSE Some(Val(x) >= c)
FillNull(a, v) == IF a = NULL THEN Some(v) ELSE a

\* The Kleene disjunction of a list of expressions (a | b | ...).
KOrAll(s) ==
    IF \E i \in 1..Len(s) : s[i] = T THEN T
    ELSE IF \E i \in 1..Len(s) : s[i] = NULL THEN NULL ELSE F

\* A path that holds no file.
Absent == [exists |-> FALSE, cols |-> {}, rows |-> <<>>]

\* No error raised.
NoError == [kind |-> "none", file |-> ""]

\* The running totals of build_bronze at the start of a run.
NoTotals == [in |-> 0, written |-> 0, dups |-> 0]

(***************************************************************************)
(* The data contract                                                       *)
(***************************************************************************)
CONTRACT_COLS == <<
    "vendor_id", "pickup_at", "dropoff_at", "passenger_count",
    "trip_distance_mi", "rate_code_id", "store_and_fwd_flag",
    "pu_location_id", "do_location_id", "payment_type",
    "fare_amount", "extra", "mta_tax", "tip_amount", "tolls_amount",
    "improvement_surcharge", "total_amount", "congestion_surcharge",
    "airport_fee", "cbd_congestion_fee",
    "manualTotal", "duration_min", "speed_mph",
    "qa_in_file_window", "qa_outlier_distance", "qa_outlier_speed",
    "qa_is_fare_mismatch", "qa_is_adjustment",
    "dup_key", "qa_is_duplicate_in_file",
    "source_year", "source_month", "source_file" >>

ContractColSet == {CONTRACT_COLS[i] : i \in 1..Len(CONTRACT_COLS)}

\* CONTRACT_DTYPES: the type of each contract column.
CONTRACT_DTYPES(c) ==
    CASE c \in {"vendor_id", "passenger_count", "rate_code_id", "payment_type"} -> "Int16"
      [] c \in {"pu_location_id", "do_location_id", "source_year", "source_month"} -> "Int32"
      [] c \in {"pickup_at", "dropoff_at"} -> "Datetime(us)"
      [] c \in {"store_and_fwd_flag", "dup_key", "source_file"} -> "Utf8"
      [] c \in {"qa_in_file_window", "qa_outlier_distance", "qa_outlier_speed",
                "qa_is_fare_mismatch", "qa_is_adjustment", "qa_is_duplicate_in_file"}
           -> "Boolean"
      [] c \in {"trip_distance_mi", "fare_amount", "extra", "mta_tax", "tip_amount",
                "tolls_amount", "improvement_surcharge", "total_amount",
                "congestion_surcharge", "airport_fee", "cbd_congestion_fee",
                "manualTotal", "duration_min", "speed_mph"} -> "Float64"

\* The schema of a frame selected as [col(c).cast(CONTRACT_DTYPES[c]) for c in
\* CONTRACT_COLS]: the contract's names in the contract's order, each with the
\* contract's type.
ContractSchema ==
    [i \in 1..Len(CONTRACT_COLS) |->
        << CONTRACT_COLS[i], CONTRACT_DTYPES(CONTRACT_COLS[i]) >>]

MONEY_COLS == <<
    "fare_amount", "extra", "mta_tax", "tip_amount", "tolls_amount",
    "improvement_surcharge", "congestion_surcharge", "airport_fee",
    "cbd_congestion_fee" >>

MoneyColSet == {MONEY_COLS[i] : i \in 1..Len(MONEY_COLS)}

\* The column set split_silver expects of the Bronze artifact.
EXPECTED == {
    "vendor_id", "pickup_at", "dropoff_at", "passenger_count",
    "trip_distance_mi", "rate_code_id", "store_and_fwd_flag",
    "pu_location_id", "do_location_id", "payment_type",
    "fare_amount", "extra", "mta_tax", "tip_amount", "tolls_amount",
    "improvement_surcharge", "congestion_surcharge", "airport_fee",
    "cbd_congestion_fee", "total_amount",
    "manualTotal", "duration_min", "speed_mph",
    "qa_in_file_window", "qa_outlier_distance", "qa_outlier_speed",
    "qa_is_fare_mismatch", "qa_is_adjustment",
    "dup_key", "qa_is_duplicate_in_file", "source_year", "source_month", "source_file" }

(***************************************************************************)
(* split_silver (scripts/silver_split.py)                                  *)
(***************************************************************************)
\* cast(pl.Int32, strict=False): a value outside the Int32 range becomes null.
CastInt32(x) ==
    IF x = NULL THEN NULL
    ELSE IF Val(x) >= -2147483647 - 1 /\ Val(x) <= 2147483647 THEN x ELSE NULL

\* NormalizeSilver without the coalescing of qa_is_adjustment.
MutNormalizeSilver(r) ==
    [r EXCEPT !["pu_location_id"] = CastInt32(@),
              !["do_location_id"] = CastInt32(@),
              !["qa_in_file_window"] = FillNull(@, FALSE),
              !["qa_outlier_distance"] = FillNull(@, FALSE),
              !["qa_outlier_speed"] = FillNull(@, FALSE),
              !["qa_is_fare_mismatch"] = FillNull(@, FALSE)]

\* NormalizeSilver with a null adjustment flag coalesced to true.
MutNormalizeAdjTrue(r) ==
    [r EXCEPT !["pu_location_id"] = CastInt32(@),
              !["do_location_id"] = CastInt32(@),
              !["qa_in_file_window"] = FillNull(@, FALSE),
              !["qa_outlier_distance"] = FillNull(@, FALSE),
              !["qa_outlier_speed"] = FillNull(@, FALSE),
              !["qa_is_adjustment"] = FillNull(@, TRUE),
              !["qa_is_fare_mismatch"] = FillNull(@, FALSE)]

\* Lines 68-81: the casts of the columns the rules read, and every QA flag
\* coalesced to a strict boolean.  The partitions are filtered from this frame,
\* so the rows they hold are the normalised rows.
NormalizeSilver(r) ==
    [r EXCEPT !["pu_location_id"] = CastInt32(@),
              !["do_location_id"] = CastInt32(@),
              !["qa_in_file_window"] = FillNull(@, FALSE),
              !["qa_outlier_distance"] = FillNull(@, FALSE),
              !["qa_outlier_speed"] = FillNull(@, FALSE),
              !["qa_is_adjustment"] = FillNull(@, FALSE),
              !["qa_is_fare_mismatch"] = FillNull(@, FALSE)]

\* A critical-field test that takes a zone id of zero or below as present.
MutMissingCritNullOnly(r) ==
    KOrAll(<< IsNullE(r["pickup_at"]),
              IsNullE(r["dropoff_at"]),
              IsNullE(r["trip_distance_mi"]),
              IsNullE(r["total_amount"]),
              IsNullE(r["pu_location_id"]),
              IsNullE(r["do_location_id"]) >>)

is_missing_crit(r) ==
    KOrAll(<< IsNullE(r["pickup_at"]),
              IsNullE(r["dropoff_at"]),
              IsNullE(r["trip_distance_mi"]),
              IsNullE(r["total_amount"]),
              KOr(IsNullE(r["pu_location_id"]), LeE(r["pu_location_id"], 0)),
              KOr(IsNullE(r["do_location_id"]), LeE(r["do_location_id"], 0)) >>)

is_admin(r) == r["qa_is_adjustment"]

\* is_anomaly without the exclusion of fare mismatches.
MutIsAnomaly(r) ==
    KOr(KOr(KNot(r["qa_in_file_window"]), r["qa_outlier_distance"]),
        r["qa_outlier_speed"])

is_anomaly(r) ==
    KAnd(KOr(KOr(KNot(r["qa_in_file_window"]), r["qa_outlier_distance"]),
             r["qa_outlier_speed"]),
         KNot(r["qa_is_fare_mismatch"]))

base_good(r) == KAnd(KNot(is_missing_crit(r)), KNot(is_admin(r)))

InRejected(r) == is_missing_crit(r)
\* The administrative filter without the exclusion of rejected rows.
MutInAdmin(r) == is_admin(r)
InAdmin(r) == KAnd(KNot(is_missing_crit(r)), is_admin(r))
InAnom(r) == KAnd(base_good(r), is_anomaly(r))
InClean(r) == KAnd(base_good(r), KNot(is_anomaly(r)))
InFmiss(r) == KAnd(InClean(r), r["qa_is_fare_mismatch"])

\* drop_unwanted: select every column but the two experimental ones.
Unwanted == {"qa_is_fee_misflag", "fee_misflag_delta"}

DropUnwanted(r) ==
    IF (DOMAIN r) \cap Unwanted = {} THEN r
    ELSE [c \in (DOMAIN r) \ Unwanted |-> r[c]]

\* The columns of a partition file.
SilverCols == EXPECTED \ Unwanted

\* The frame the partitions are filtered from (lf after with_columns).  src is
\* the position of the row in the Bronze artifact: the record's identity.
SilverFrame(rows) ==
    [i \in 1..Len(rows) |-> [src |-> i, row |-> NormalizeSilver(rows[i])]]

PartNames == {"rejected", "admin", "anom", "clean", "fmiss"}

\* The filter of each partition (lines 103-107).
PartFilter(p, r) ==
    CASE p = "rejected" -> InRejected(r)
      [] p = "admin"    -> InAdmin(r)
      [] p = "anom"     -> InAnom(r)
      [] p = "clean"    -> InClean(r)
      [] p = "fmiss"    -> InFmiss(r)

\* One partition file: lf.filter(pred), which keeps the rows whose predicate is
\* true and drops those where it is false or null, then drop_unwanted, in scan
\* order.
PartitionOf(rows, p) ==
    LET kept == SelectSeq(SilverFrame(rows), LAMBDA e : PartFilter(p, e.row) = T)
    IN  [exists |-> TRUE, cols |-> SilverCols,
         rows |-> [k \in 1..Len(kept) |->
                     [src |-> kept[k].src, row |-> DropUnwanted(kept[k].row)]]]

SilverOutputs(rows) == [p \in PartNames |-> PartitionOf(rows, p)]

\* _count_rows: 0 when the file is absent.
CountRows(f) == IF f.exists THEN Len(f.rows) ELSE 0

NoReport == [total_rows |-> 0, n_rej |-> 0, n_adm |-> 0, n_anom |-> 0,
             n_clean |-> 0, n_fmiss |-> 0, warning |-> FALSE,
             missing |-> {}, extra |-> {}]

\* Lines 133-153: the counts and the coverage check.
SilverReport(total, out) ==
    LET base_good_count == total - CountRows(out["rejected"]) - CountRows(out["admin"])
        covered == CountRows(out["clean"]) + CountRows(out["anom"])
    IN  [total_rows |-> total,
         n_rej |-> CountRows(out["rejected"]), n_adm |-> CountRows(out["admin"]),
         n_anom |-> CountRows(out["anom"]), n_clean |-> CountRows(out["clean"]),
         n_fmiss |-> CountRows(out["fmiss"]),
         warning |-> (covered # base_good_count),
         missing |-> {}, extra |-> {}]

\* split_silver on an artifact whose column set is the expected one.
SplitSilver ==
    /\ spc = "start"
    /\ bronze.exists
    /\ bronze.cols = EXPECTED
    /\ silver' = SilverOutputs(bronze.rows)
    /\ report' = SilverReport(Len(bronze.rows), silver')
    /\ spc' = "done"
    /\ UNCHANGED <<bronze, bronzeVars, keyVars, downloadVars>>

\* A schema check that stops on a missing column only and goes on when the
\* artifact merely has unexpected columns.
MutSchemaCheckMissingOnly ==
    /\ spc = "start"
    /\ bronze.exists
    /\ bronze.cols # EXPECTED
    /\ IF EXPECTED \subseteq bronze.cols
       THEN /\ silver' = SilverOutputs(bronze.rows)
            /\ report' = SilverReport(Len(bronze.rows), silver')
            /\ spc' = "done"
       ELSE /\ report' = [NoReport EXCEPT !.missing = EXPECTED \ bronze.cols,
                                          !.extra = bronze.cols \ EXPECTED]
            /\ spc' = "fatal"
            /\ UNCHANGED silver
    /\ UNCHANGED <<bronze, bronzeVars, keyVars, downloadVars>>

\* Lines 55-65: SystemExit naming the missing and the extra columns.
SplitSilverSchemaMismatch ==
    /\ spc = "start"
    /\ bronze.exists
    /\ bronze.cols # EXPECTED
    /\ report' = [NoReport EXCEPT !.missing = EXPECTED \ bronze.cols,
                                  !.extra = bronze.cols \ EXPECTED]
    /\ spc' = "fatal"
    /\ UNCHANGED <<bronze, bronzeVars, silver, keyVars, downloadVars>>

\* scan_parquet of a path that holds no file: collect_schema raises.
SplitSilverNoBronze ==
    /\ spc = "start"
    /\ ~bronze.exists
    /\ spc' = "fatal"
    /\ UNCHANGED <<bronze, bronzeVars, silver, report, keyVars, downloadVars>>

NextSilver == SplitSilver \/ SplitSilverSchemaMismatch \/ SplitSilverNoBronze

(***************************************************************************)
(* split_silver in two steps, the Bronze path rewritten in between         *)
(***************************************************************************)
\* Lines 36-130: the schema check passed and the five partitions sunk.  The
\* frame is lazy: every sink scans the Bronze path when it runs.
SilverWrite ==
    /\ spc = "start"
    /\ bronze.exists
    /\ bronze.cols = EXPECTED
    /\ silver' = SilverOutputs(bronze.rows)
    /\ spc' = "written"
    /\ UNCHANGED <<bronze, bronzeVars, report, keyVars, downloadVars>>

\* A report step that raises when the coverage check fails and removes what
\* it wrote.
MutCountAborts ==
    /\ spc = "written"
    /\ bronze.exists
    /\ report' = SilverReport(Len(bronze.rows), silver)
    /\ spc' = IF report'.warning THEN "fatal" ELSE "done"
    /\ silver' = IF report'.warning THEN [p \in PartNames |-> Absent] ELSE silver
    /\ UNCHANGED <<bronze, bronzeVars, keyVars, downloadVars>>

\* Lines 133-153: total_rows is counted by a new scan of the Bronze path, the
\* partition rows are counted from the files written; a difference is printed
\* and the report goes on.
SilverCount ==
    /\ spc = "written"
    /\ bronze.exists
    /\ report' = SilverReport(Len(bronze.rows), silver)
    /\ spc' = "done"
    /\ UNCHANGED <<bronze, bronzeVars, silver, keyVars, downloadVars>>

(***************************************************************************)
(* File names and the reference window (scripts/bronze_build.py)           *)
(***************************************************************************)
\* The file names of the model, in the order sorted() puts them (the middle
\* one has a one-digit month, so the pattern \d{4}-\d{2} does not occur in it).
FileNames == << "yellow_tripdata_2024-01.parquet",
                "yellow_tripdata_2024-1.parquet",
                "yellow_tripdata_2024-12.parquet" >>

FileNameSet == {FileNames[i] : i \in 1..Len(FileNames)}

NameRank(n) == CHOOSE i \in 1..Len(FileNames) : FileNames[i] = n

NoMatch == <<>>

\* re.search(r"(\d{4})-(\d{2})", name): the two groups as integers, or no match.
RegexYearMonth(name) ==
    CASE name = "yellow_tripdata_2024-01.parquet" -> <<2024, 1>>
      [] name = "yellow_tripdata_2024-12.parquet" -> <<2024, 12>>
      [] OTHER -> NoMatch

IsLeap(y) == (y % 4 = 0 /\ y % 100 # 0) \/ y % 400 = 0

\* Days from 2000-01-01 to the first day of year y (y >= 2000).
DaysBeforeYear(y) ==
    365 * (y - 2000)
    + (((y - 1) \div 4) - ((y - 1) \div 100) + ((y - 1) \div 400)) - 484

DaysBeforeMonth(y, m) ==
    LET cum == <<0, 31, 59, 90, 120, 151, 181, 212, 243, 273, 304, 334>>
    IN  cum[m] + (IF m > 2 /\ IsLeap(y) THEN 1 ELSE 0)

\* datetime(y, m, 1) in seconds since 2000-01-01 00:00.
MonthStart(y, m) == (DaysBeforeYear(y) + DaysBeforeMonth(y, m)) * 86400

\* A window whose December end stays in the file's own year.
MutFileWindow(year, month) ==
    LET start == MonthStart(year, month)
        next_start == IF month = 12 THEN MonthStart(year, 1)
                      ELSE MonthStart(year, month + 1)
    IN  << start - 2 * 86400, next_start + 2 * 86400 >>

\* file_window: two days before the first of the month to two days after the
\* first of the next month.
file_window(year, month) ==
    LET start == MonthStart(year, month)
        next_start == IF month = 12 THEN MonthStart(year + 1, 1)
                      ELSE MonthStart(year, month + 1)
    IN  << start - 2 * 86400, next_start + 2 * 86400 >>

(***************************************************************************)
(* canonicalize (scripts/common.py) and the casts of build_bronze          *)
(***************************************************************************)
\* CANON: the raw column names that are renamed, and their canonical names.
CANON(c) ==
    CASE c = "tpep_pickup_datetime" -> "pickup_at"
      [] c = "tpep_dropoff_datetime" -> "dropoff_at"
      [] c = "VendorID" -> "vendor_id"
      [] c = "PULocationID" -> "pu_location_id"
      [] c = "DOLocationID" -> "do_location_id"
      [] c = "Airport_fee" -> "airport_fee"
      [] c = "ratecodeid" -> "rate_code_id"
      [] c = "RatecodeID" -> "rate_code_id"
      [] OTHER -> c

\* common.MONEY_COLS: the nine components and total_amount.
CommonMoneyCols == MoneyColSet \cup {"total_amount"}

\* canonicalize: rename the known columns, then add every money column that is
\* still missing as an all-null Float64 column.  (The lenient casts to Int64,
\* Float64 and Utf8 leave the values of the model, which are already integers,
\* fixed-point numbers and strings, as they are; the timestamps of the model
\* are Datetime("us") already.)
canonicalize(r) ==
    LET renamed == {CANON(c) : c \in DOMAIN r}
        src(n) == CHOOSE c \in DOMAIN r : CANON(c) = n
    IN  [n \in renamed \cup CommonMoneyCols |->
            IF n \in renamed THEN r[src(n)] ELSE NULL]

\* ensure_money_columns: a money column that is not among the columns is added
\* as the literal 0.0.
ensure_money_columns(r) ==
    [n \in (DOMAIN r) \cup MoneyColSet |-> IF n \in DOMAIN r THEN r[n] ELSE Some(0)]

\* Lines 217-218: trip_distance becomes trip_distance_mi.
RenameDistance(r) ==
    IF "trip_distance_mi" \notin DOMAIN r /\ "trip_distance" \in DOMAIN r
    THEN [n \in ((DOMAIN r) \ {"trip_distance"}) \cup {"trip_distance_mi"} |->
            IF n = "trip_distance_mi" THEN r["trip_distance"] ELSE r[n]]
    ELSE r

\* cast(pl.Int16, strict=False): a value outside the Int16 range becomes null.
CastInt16(x) ==
    IF x = NULL THEN NULL
    ELSE IF Val(x) >= -32768 /\ Val(x) <= 32767 THEN x ELSE NULL

\* The columns lines 221-233 refer to: a frame without one of them raises
\* ColumnNotFoundError.
BaseCols ==
    {"vendor_id", "passenger_count", "rate_code_id", "payment_type",
     "pu_location_id", "do_location_id", "pickup_at", "dropoff_at",
     "store_and_fwd_flag", "trip_distance_mi", "total_amount"} \cup MoneyColSet

\* Lines 221-233: the base columns narrowed to the contract types.
EnforceBaseDtypes(r) ==
    [r EXCEPT !["vendor_id"] = CastInt16(@),
              !["passenger_count"] = CastInt16(@),
              !["rate_code_id"] = CastInt16(@),
              !["payment_type"] = CastInt16(@),
              !["pu_location_id"] = CastInt32(@),
              !["do_location_id"] = CastInt32(@)]

(***************************************************************************)
(* compute_derivations_and_flags (scripts/bronze_build.py)                 *)
(***************************************************************************)
\* duration_min, in seconds: dropoff_at - pickup_at, null when either is null.
DurationMin(r) ==
    IF r["pickup_at"] = NULL \/ r["dropoff_at"] = NULL THEN NULL
    ELSE Some(Val(r["dropoff_at"]) - Val(r["pickup_at"]))

\* A speed that is zero where the duration is not positive.
MutSpeedZero(r, dur) ==
    IF GtE(dur, 0) = T
    THEN (IF r["trip_distance_mi"] = NULL THEN NULL
          ELSE Some(<< 36 * Val(r["trip_distance_mi"]), Val(dur) >>))
    ELSE Some(<< 0, 1 >>)

\* speed_mph: when(duration_min > 0).then(60 * distance / duration_min)
\* .otherwise(None).  With the distance d in hundredths of a mile and the
\* duration s in seconds, 60 * (d / 100) / (s / 60) = 36 * d / s.
SpeedMph(r, dur) ==
    IF GtE(dur, 0) = T
    THEN (IF r["trip_distance_mi"] = NULL THEN NULL
          ELSE Some(<< 36 * Val(r["trip_distance_mi"]), Val(dur) >>))
    ELSE NULL

\* A total in which a null component makes the components after it count
\* for nothing.
MutManualTotalStops(r) ==
    LET order == << "fare_amount", "extra", "mta_tax", "tolls_amount",
                    "improvement_surcharge", "congestion_surcharge",
                    "airport_fee", "cbd_congestion_fee", "tip_amount" >>
        firstNull == IF \E i \in 1..9 : r[order[i]] = NULL
                     THEN CHOOSE i \in 1..9 :
                              /\ r[order[i]] = NULL
                              /\ \A j \in 1..(i - 1) : r[order[j]] # NULL
                     ELSE 10
        part == [i \in 1..9 |-> IF i < firstNull THEN Val(r[order[i]]) ELSE 0]
    IN  Some(part[1] + part[2] + part[3] + part[4] + part[5] + part[6]
             + part[7] + part[8] + part[9])

\* manualTotal: the nine components, each with fill_null(0.0), added up.
ManualTotal(r) ==
    Some(Val(FillNull(r["fare_amount"], 0)) + Val(FillNull(r["extra"], 0))
         + Val(FillNull(r["mta_tax"], 0)) + Val(FillNull(r["tolls_amount"], 0))
         + Val(FillNull(r["improvement_surcharge"], 0))
         + Val(FillNull(r["congestion_surcharge"], 0))
         + Val(FillNull(r["airport_fee"], 0))
         + Val(FillNull(r["cbd_congestion_fee"], 0))
         + Val(FillNull(r["tip_amount"], 0)))

\* Expr.is_between(lo, hi): both ends included.
IsBetween(x, lo, hi) == KAnd(GeE(x, lo), LeE(x, hi))

\* Expr.is_between(lo, hi, closed="right").
IsBetweenRight(x, lo, hi) == KAnd(GtE(x, lo), LeE(x, hi))

\* Expr.is_in(values).
IsIn(x, S) == IF x = NULL THEN NULL ELSE Some(Val(x) \in S)

Abs(n) == IF n < 0 THEN -n ELSE n

QaInFileWindow(r, yr, mo) ==
    LET win == file_window(yr, mo)
    IN  KAnd(IsBetween(r["pickup_at"], win[1], win[2]),
             IsBetween(r["dropoff_at"], win[1], win[2]))

QaOutlierDistance(r) == KNot(IsBetweenRight(r["trip_distance_mi"], 0, 15000))

\* speed_mph > 80, on the fraction.
SpeedOver80(s) == IF s = NULL THEN NULL ELSE Some(Val(s)[1] > 80 * Val(s)[2])

\* A speed flag that is null as soon as the speed is null.
MutOutlierSpeedStrict(dur, speed) ==
    IF speed = NULL THEN NULL
    ELSE KOrAll(<< LtE(dur, 60), GtE(dur, 21600), SpeedOver80(speed) >>)

QaOutlierSpeed(dur, speed) ==
    KOrAll(<< LtE(dur, 60), GtE(dur, 21600), SpeedOver80(speed) >>)

\* |manualTotal - total_amount| > 0.50.
QaIsFareMismatch(r, manual) ==
    IF r["total_amount"] = NULL THEN NULL
    ELSE Some(Abs(Val(manual) - Val(r["total_amount"])) > 50)

\* Lines 129-140.
QaIsAdjustment(r) ==
    KOrAll(<< LtE(r["total_amount"], 0),
              LtE(r["fare_amount"], 0),
              LtE(r["extra"], 0),
              LtE(r["mta_tax"], 0),
              LtE(r["tolls_amount"], 0),
              LtE(r["improvement_surcharge"], 0),
              LtE(r["congestion_surcharge"], 0),
              LtE(r["airport_fee"], 0),
              LtE(r["cbd_congestion_fee"], 0),
              IsIn(r["payment_type"], {3, 4, 6}) >>)

\* A flag left as its comparison gave it.
MutCoalesceFlag(x) == x

\* Lines 142-148: fill_null(False).cast(pl.Boolean) on a flag.
CoalesceFlag(x) == FillNull(x, FALSE)

FlagNames ==
    {"qa_in_file_window", "qa_outlier_distance", "qa_outlier_speed",
     "qa_is_fare_mismatch", "qa_is_adjustment"}

\* Lines 117-141: the five flags as their comparisons give them, nulls included.
RawFlags(r, yr, mo) ==
    LET dur == DurationMin(r)
        speed == SpeedMph(r, dur)
    IN  [qa_in_file_window |-> QaInFileWindow(r, yr, mo),
         qa_outlier_distance |-> QaOutlierDistance(r),
         qa_outlier_speed |-> QaOutlierSpeed(dur, speed),
         qa_is_fare_mismatch |-> QaIsFareMismatch(r, ManualTotal(r)),
         qa_is_adjustment |-> QaIsAdjustment(r)]

\* The columns compute_derivations_and_flags adds.
DerivedCols ==
    {"duration_min", "speed_mph", "manualTotal", "qa_in_file_window",
     "qa_outlier_distance", "qa_outlier_speed", "qa_is_fare_mismatch",
     "qa_is_adjustment"}

compute_derivations_and_flags(r, yr, mo) ==
    LET dur == DurationMin(r)
        speed == SpeedMph(r, dur)
        manual == ManualTotal(r)
        raw == RawFlags(r, yr, mo)
        added == [duration_min |-> dur, speed_mph |-> speed, manualTotal |-> manual]
    IN  [n \in (DOMAIN r) \cup DerivedCols |->
            IF n \in FlagNames THEN CoalesceFlag(raw[n])
            ELSE IF n \in DerivedCols THEN added[n] ELSE r[n]]

(***************************************************************************)
(* build_dup_key and the per-file dedup (scripts/bronze_build.py)          *)
(***************************************************************************)
\* The number of values of the hash (2^64 in the program): small, so that
\* distinct key tuples can collide.
HashSpace == 97

key_cols == << "vendor_id", "pickup_at", "dropoff_at", "pu_location_id",
               "do_location_id", "fare_amount", "trip_distance_mi" >>

\* Lines 161-163: a key column that is missing is hashed as null.
KeyTuple(r) ==
    [i \in 1..Len(key_cols) |->
        IF key_cols[i] \in DOMAIN r THEN r[key_cols[i]] ELSE NULL]

FieldCode(x) == IF x = NULL THEN 0 ELSE (Val(x) % HashSpace) + 1

RECURSIVE WeightedSum(_, _)
WeightedSum(k, i) ==
    IF i > Len(k) THEN 0
    ELSE ((2 * i + 1) * FieldCode(k[i]) + 3 * WeightedSum(k, i + 1)) % HashSpace

\* pl.hash(cols, seed=42), the seeded hash of the key columns: a function of
\* the key tuple alone, not injective.
HashKey(k) == WeightedSum(k, 1)

\* pl.struct(cols).hash(seed=42): another seeded hash of the same tuple, which
\* need not give the values of the first.
StructHashKey(k) == (5 * WeightedSum(k, 1) + 1) % HashSpace

\* The hash expressions build_dup_key knows.
AllHashes == {"native", "struct"}

\* Lines 166-169: pl.hash when the installed polars has it; when the attempt
\* raises, struct().hash; when that raises too, the exception leaves
\* build_dup_key ("none": there is no third attempt).
HashChoice(caps) ==
    IF "native" \in caps THEN "native"
    ELSE IF "struct" \in caps THEN "struct" ELSE "none"

HashWith(choice, k) == IF choice = "native" THEN HashKey(k) ELSE StructHashKey(k)

\* cast(pl.Utf8) of the hash: its decimal digits.
RECURSIVE Digits(_)
Digits(n) == IF n < 10 THEN <<n>> ELSE Append(Digits(n \div 10), n % 10)

KeyColSet == {key_cols[i] : i \in 1..Len(key_cols)}

\* A key that also covers passenger_count.
MutDupKeyWider(r) ==
    [n \in (DOMAIN r) \cup KeyColSet \cup {"dup_key"} |->
        IF n = "dup_key"
        THEN Some(Digits((HashWith(HashChoice(hashCaps), KeyTuple(r))
                          + (IF "passenger_count" \in DOMAIN r
                             THEN FieldCode(r["passenger_count"]) ELSE 0)) % HashSpace))
        ELSE IF n \in DOMAIN r THEN r[n] ELSE NULL]

\* build_dup_key on one row of the frame: a key column the frame lacks is
\* added as a null literal (lines 161-163), the key columns are hashed with
\* the first hash expression that can be built, and the hash is cast to a
\* string.  Defined when HashChoice(hashCaps) is not "none".
DupKeyWith(caps, r) ==
    [n \in (DOMAIN r) \cup KeyColSet \cup {"dup_key"} |->
        IF n = "dup_key"
        THEN Some(Digits(HashWith(HashChoice(caps), KeyTuple(r))))
        ELSE IF n \in DOMAIN r THEN r[n] ELSE NULL]

build_dup_key(r) == DupKeyWith(hashCaps, r)

\* The order of two strings of digits: -1, 0 or 1.
CmpStr(a, b) ==
    LET m == IF Len(a) < Len(b) THEN Len(a) ELSE Len(b)
        diff == {i \in 1..m : a[i] # b[i]}
    IN  IF diff = {}
        THEN (IF Len(a) < Len(b) THEN -1 ELSE IF Len(a) > Len(b) THEN 1 ELSE 0)
        ELSE LET d == CHOOSE i \in diff : \A j \in diff : i <= j
             IN  IF a[d] < b[d] THEN -1 ELSE 1

CmpInt(a, b) == IF a < b THEN -1 ELSE IF a > b THEN 1 ELSE 0

CmpName(a, b) == CmpInt(NameRank(a), NameRank(b))

\* nulls_last=True: a null sorts after every value.
CmpNullsLast(x, y, kind) ==
    IF x = NULL THEN (IF y = NULL THEN 0 ELSE 1)
    ELSE IF y = NULL THEN -1
    ELSE CASE kind = "str" -> CmpStr(Val(x), Val(y))
           [] kind = "int" -> CmpInt(Val(x), Val(y))
           [] kind = "name" -> CmpName(Val(x), Val(y))

\* The order of two rows by (dup_key, pickup_at, dropoff_at, source_file).
CmpRows(r1, r2) ==
    LET c1 == CmpNullsLast(r1["dup_key"], r2["dup_key"], "str")
        c2 == CmpNullsLast(r1["pickup_at"], r2["pickup_at"], "int")
        c3 == CmpNullsLast(r1["dropoff_at"], r2["dropoff_at"], "int")
        c4 == CmpNullsLast(r1["source_file"], r2["source_file"], "name")
    IN  IF c1 # 0 THEN c1 ELSE IF c2 # 0 THEN c2 ELSE IF c3 # 0 THEN c3 ELSE c4

\* The rows left in the order the file has them.
MutNoSort(rows) == rows

\* df.sort([...], nulls_last=True).  Rows that tie on all four columns keep
\* their order here; they share a dup_key, so the dedup drops them together
\* and their order never shows.
SortRows(rows) ==
    LET n == Len(rows)
        Rank(i) == Cardinality({j \in 1..n :
                        \/ CmpRows(rows[j], rows[i]) < 0
                        \/ (CmpRows(rows[j], rows[i]) = 0 /\ j < i)}) + 1
    IN  [k \in 1..n |-> rows[CHOOSE i \in 1..n : Rank(i) = k]]

\* A duplicate test on the pickup time alone.
MutIsDuplicated(rows, i) ==
    Cardinality({j \in 1..Len(rows) : rows[j]["pickup_at"] = rows[i]["pickup_at"]}) > 1

\* pl.col("dup_key").is_duplicated(): true on every row whose dup_key occurs
\* more than once in the frame, the first occurrence included.
is_duplicated(rows, i) ==
    Cardinality({j \in 1..Len(rows) : rows[j]["dup_key"] = rows[i]["dup_key"]}) > 1

MarkDuplicates(rows) ==
    [i \in 1..Len(rows) |->
        [n \in (DOMAIN rows[i]) \cup {"qa_is_duplicate_in_file"} |->
            IF n = "qa_is_duplicate_in_file" THEN Some(is_duplicated(rows, i))
            ELSE rows[i][n]]]

\* A count of the rows beyond the first of each dup_key.
MutRemovedBeyondFirst(marked) ==
    Len(marked) - Cardinality({marked[i]["dup_key"] : i \in 1..Len(marked)})

\* int(df["qa_is_duplicate_in_file"].sum()).
Removed(marked) ==
    Cardinality({i \in 1..Len(marked) : marked[i]["qa_is_duplicate_in_file"] = T})

\* No filter: the marked rows stay.
MutKeepMarked(marked) == marked

\* df.filter(~pl.col("qa_is_duplicate_in_file")).
DropDuplicates(marked) ==
    SelectSeq(marked, LAMBDA r : KNot(r["qa_is_duplicate_in_file"]) = T)

\* Lines 248-251.
AddLineage(r, yr, mo) ==
    [n \in (DOMAIN r) \cup {"source_year", "source_month"} |->
        IF n = "source_year" THEN Some(yr)
        ELSE IF n = "source_month" THEN Some(mo) ELSE r[n]]

\* The cast to a contract column's type (strict=False).  The values of the
\* other types are of their type already when they reach the cast.
CastContract(c, x) ==
    IF CONTRACT_DTYPES(c) = "Int16" THEN CastInt16(x)
    ELSE IF CONTRACT_DTYPES(c) = "Int32" THEN CastInt32(x)
    ELSE x

\* The contract cast that adds and casts the contract columns but selects
\* nothing: every column of the frame stays.
MutCastNoSelect(r) ==
    [c \in (DOMAIN r) \cup ContractColSet |->
        IF c \notin ContractColSet THEN r[c]
        ELSE IF c \in DOMAIN r THEN CastContract(c, r[c]) ELSE NULL]

\* cast_and_select_contract: a missing contract column is added as null, every
\* contract column is cast, and only the contract columns are selected.
cast_and_select_contract(r) ==
    [c \in ContractColSet |-> IF c \in DOMAIN r THEN CastContract(c, r[c]) ELSE NULL]

(***************************************************************************)
(* build_bronze (scripts/bronze_build.py)                                  *)
(***************************************************************************)
\* The columns of a raw file's frame when lines 221-233 run.
FrameCols(f) ==
    LET canon == {CANON(c) : c \in f.cols \cup {"source_file"}} \cup CommonMoneyCols
    IN  IF "trip_distance_mi" \notin canon /\ "trip_distance" \in canon
        THEN (canon \ {"trip_distance"}) \cup {"trip_distance_mi"}
        ELSE canon

\* What stops the processing of a file, or "none".
FileError(f) ==
    LET ym == RegexYearMonth(f.name)
    IN  IF ym = NoMatch THEN "cannot_parse_year_month"
        ELSE IF ym[2] \notin 1..12 THEN "month_out_of_range"
        ELSE IF ~(BaseCols \subseteq FrameCols(f)) THEN "column_not_found"
        ELSE IF HashChoice(hashCaps) = "none" THEN "hash_unavailable"
        ELSE "none"

\* Lines 206-233: one row of a file read, canonicalised and cast.
BaseRow(f, r) ==
    LET withFile == [n \in (DOMAIN r) \cup {"source_file"} |->
                        IF n = "source_file" THEN Some(f.name) ELSE r[n]]
    IN  EnforceBaseDtypes(RenameDistance(ensure_money_columns(canonicalize(withFile))))

\* Lines 206-236: the row with its derivations and flags.
PrepareRow(f, r) ==
    LET ym == RegexYearMonth(f.name)
    IN  compute_derivations_and_flags(BaseRow(f, r), ym[1], ym[2])

\* Lines 239-241: the rows of a file keyed, sorted and marked.
MarkedRows(f) ==
    MarkDuplicates(SortRows([i \in 1..Len(f.rows) |->
                                build_dup_key(PrepareRow(f, f.rows[i]))]))

\* Lines 243-257: the table a file contributes to the artifact.
FileTable(f) ==
    LET ym == RegexYearMonth(f.name)
        kept == DropDuplicates(MarkedRows(f))
    IN  [i \in 1..Len(kept) |->
            cast_and_select_contract(AddLineage(kept[i], ym[1], ym[2]))]

\* sorted(Path(raw_dir).glob("*.parquet")).
SortedFiles(dir) ==
    LET Rank(f) == Cardinality({g \in dir : NameRank(g.name) < NameRank(f.name)}) + 1
    IN  [k \in 1..Cardinality(dir) |-> CHOOSE f \in dir : Rank(f) = k]

\* table.schema.names, as a set (the select list when the table has no row).
TableCols(table) == IF table = <<>> THEN ContractColSet ELSE DOMAIN table[1]

\* A table appended that leaves out the rows whose dup_key the artifact holds.
MutAppendTable(old, table) ==
    old \o SelectSeq(table, LAMBDA r :
                \A j \in 1..Len(old) : old[j]["dup_key"] # r["dup_key"])

\* writer.write_table(table): the table's rows follow those already written.
AppendTable(old, table) == old \o table

\* An empty directory taken as a run of no files that completes and reports
\* whatever the output path holds.
MutNoFilesCompletes ==
    /\ bpc = "idle"
    /\ rawDir = {}
    /\ bpc' = "done"
    /\ prior' = bronze
    /\ UNCHANGED <<rawDir, bronze, files, fidx, writer, totals, berr, runs,
                 silverVars, keyVars, downloadVars>>

\* Lines 186-188: no parquet file in the directory.  FileNotFoundError is
\* raised before the old artifact is looked at (lines 193-194).
BronzeNoFiles ==
    /\ bpc = "idle"
    /\ rawDir = {}
    /\ bpc' = "fatal"
    /\ berr' = [kind |-> "no_parquet_files", file |-> ""]
    /\ prior' = bronze
    /\ UNCHANGED <<rawDir, bronze, files, fidx, writer, totals, runs,
                 silverVars, keyVars, downloadVars>>

\* A start that leaves the old artifact in place and opens the writer on it,
\* so that the tables of the run follow its rows.
MutStartKeepsArtifact ==
    /\ bpc = "idle"
    /\ rawDir # {}
    /\ files' = SortedFiles(rawDir)
    /\ writer' = IF bronze.exists THEN "open" ELSE "none"
    /\ totals' = NoTotals
    /\ fidx' = 1
    /\ bpc' = "loop"
    /\ prior' = bronze
    /\ UNCHANGED <<rawDir, bronze, berr, runs,
                 silverVars, keyVars, downloadVars>>

\* Lines 186-199: the files listed, the old artifact unlinked.
BronzeStart ==
    /\ bpc = "idle"
    /\ rawDir # {}
    /\ files' = SortedFiles(rawDir)
    /\ bronze' = Absent
    /\ writer' = "none"
    /\ totals' = NoTotals
    /\ fidx' = 1
    /\ bpc' = "loop"
    /\ prior' = bronze
    /\ UNCHANGED <<rawDir, berr, runs,
                 silverVars, keyVars, downloadVars>>

\* Lines 201-265: one pass of the loop.  The writer is opened by the first
\* file, which creates the artifact; the table is appended.
BronzeFile ==
    /\ bpc = "loop"
    /\ fidx <= Len(files)
    /\ FileError(files[fidx]) = "none"
    /\ LET f == files[fidx]
           marked == MarkedRows(f)
           table == FileTable(f)
       IN  /\ totals' = [in |-> totals.in + Len(f.rows),
                         written |-> totals.written + Len(table),
                         dups |-> totals.dups + Removed(marked)]
           /\ bronze' = [exists |-> TRUE, cols |-> TableCols(table),
                         rows |-> AppendTable(IF writer = "none" THEN <<>> ELSE bronze.rows,
                                              table)]
    /\ writer' = "open"
    /\ fidx' = fidx + 1
    /\ UNCHANGED <<rawDir, bpc, files, berr, prior, runs,
                 silverVars, keyVars, downloadVars>>

\* A pass of the loop that steps over a file it cannot process.
MutSkipBadFile ==
    /\ bpc = "loop"
    /\ fidx <= Len(files)
    /\ FileError(files[fidx]) # "none"
    /\ fidx' = fidx + 1
    /\ UNCHANGED <<rawDir, bronze, bpc, files, writer, totals, berr, prior, runs,
                 silverVars, keyVars, downloadVars>>

\* What becomes of the writer when an exception leaves build_bronze: no code
\* closes it (there is no try/finally), so it stays open unless the writer's
\* finalizer closes it while the interpreter shuts down.
WriterAfterRaise(w) == IF w = "open" THEN {"open", "closed"} ELSE {w}

\* A pass of the loop that raises: the file name holds no YYYY-MM (line 203,
\* a ValueError whose message ends with the file name), or a base column is
\* missing (lines 221-233, after the rows were counted), or no hash
\* expression can be built (line 239).  The file at the output path keeps
\* what the earlier passes wrote.
BronzeFileFatal ==
    /\ bpc = "loop"
    /\ fidx <= Len(files)
    /\ FileError(files[fidx]) # "none"
    /\ berr' = [kind |-> FileError(files[fidx]),
                file |-> IF FileError(files[fidx]) = "cannot_parse_year_month"
                         THEN files[fidx].name ELSE ""]
    /\ totals' = IF FileError(files[fidx]) \in {"column_not_found", "hash_unavailable"}
                 THEN [totals EXCEPT !.in = @ + Len(files[fidx].rows)]
                 ELSE totals
    /\ bpc' = "fatal"
    /\ writer' \in WriterAfterRaise(writer)
    /\ UNCHANGED <<rawDir, bronze, files, fidx, prior, runs,
                 silverVars, keyVars, downloadVars>>

\* Lines 267-276: the writer closed, the totals reported.
BronzeFinish ==
    /\ bpc = "loop"
    /\ fidx > Len(files)
    /\ writer' = IF writer = "open" THEN "closed" ELSE writer
    /\ bpc' = "done"
    /\ UNCHANGED <<rawDir, bronze, files, fidx, totals, berr, prior, runs,
                 silverVars, keyVars, downloadVars>>

NextBronze ==
    BronzeNoFiles \/ BronzeStart \/ BronzeFile \/ BronzeFileFatal \/ BronzeFinish

\* The largest number of runs of build_bronze over one directory.
MaxRuns == 2

\* Lines 279-285: build_bronze invoked again, with the same directory and
\* output path, after the earlier run has ended; the new process starts with
\* fresh locals and finds on disk what the earlier run left.
BronzeRerun ==
    /\ bpc \in {"done", "fatal"}
    /\ runs < MaxRuns
    /\ runs' = runs + 1
    /\ bpc' = "idle"
    /\ files' = <<>>
    /\ fidx' = 0
    /\ writer' = "none"
    /\ totals' = NoTotals
    /\ berr' = NoError
    /\ UNCHANGED <<rawDir, bronze, prior,
                 silverVars, keyVars, downloadVars>>

NextRuns ==
    BronzeNoFiles \/ BronzeStart \/ BronzeFile \/ BronzeFileFatal \/ BronzeFinish
    \/ BronzeRerun

(***************************************************************************)
(* The parts of the state a run of the pipeline leaves alone               *)
(***************************************************************************)
\* No frame handed to build_dup_key on its own.
NoBatch == <<>>

\* Both hash expressions can be built; build_dup_key is not called on its own.
KeyIdle ==
    /\ hashCaps = AllHashes
    /\ batch = NoBatch
    /\ keyed = <<>>

\* A path that holds no file (of the downloader).
NoFile == [exists |-> FALSE, data |-> <<>>]

\* No request made.
NoResponse == [status |-> "none", body |-> <<>>, sent |-> 0, end |-> "eof"]

\* download is not called.
DownloadIdle ==
    /\ dest = NoFile
    /\ tmp = NoFile
    /\ resp = NoResponse
    /\ dpc = "idle"
    /\ derr = "none"

(***************************************************************************)
(* Bronze artifacts handed to split_silver                                 *)
(***************************************************************************)
\* The largest number of rows of a Bronze artifact handed to split_silver.
MaxBronzeRows == 2

\* A row as build_bronze writes it: 2024-01-15 00:00 to 00:10, 2.5 miles.
SilverBaseRow ==
    [vendor_id |-> Some(1), pickup_at |-> Some(758592000),
     dropoff_at |-> Some(758592600), passenger_count |-> Some(1),
     trip_distance_mi |-> Some(250), rate_code_id |-> Some(1),
     store_and_fwd_flag |-> Some("N"), pu_location_id |-> Some(100),
     do_location_id |-> Some(200), payment_type |-> Some(1),
     fare_amount |-> Some(1000), extra |-> Some(0), mta_tax |-> Some(0),
     tip_amount |-> Some(0), tolls_amount |-> Some(0),
     improvement_surcharge |-> Some(0), total_amount |-> Some(1000),
     congestion_surcharge |-> Some(0), airport_fee |-> Some(0),
     cbd_congestion_fee |-> Some(0), manualTotal |-> Some(1000),
     duration_min |-> Some(600), speed_mph |-> Some(<<9000, 600>>),
     qa_in_file_window |-> T, qa_outlier_distance |-> F,
     qa_outlier_speed |-> F, qa_is_fare_mismatch |-> F,
     qa_is_adjustment |-> F, dup_key |-> Some(<<4, 2>>),
     qa_is_duplicate_in_file |-> F, source_year |-> Some(2024),
     source_month |-> Some(1),
     source_file |-> Some("yellow_tripdata_2024-01.parquet")]

\* The window / distance / speed flags: the plain row, and each flag in turn
\* raised or null.
AnomPatterns ==
    { <<T, F, F>>, <<F, F, F>>, <<NULL, F, F>>, <<T, T, F>>, <<T, NULL, F>>,
      <<T, F, T>>, <<T, F, NULL>> }

\* Rows with every critical field present: every fare-mismatch value with
\* every anomaly pattern, and a true or null adjustment flag with every
\* fare-mismatch value, inside and outside the file window.
SilverFlagRows ==
    { [SilverBaseRow EXCEPT !["qa_is_fare_mismatch"] = fm,
                            !["qa_in_file_window"] = a[1],
                            !["qa_outlier_distance"] = a[2],
                            !["qa_outlier_speed"] = a[3]] :
        fm \in Tri, a \in AnomPatterns }
    \cup
    { [SilverBaseRow EXCEPT !["qa_is_adjustment"] = adj,
                            !["qa_is_fare_mismatch"] = fm,
                            !["qa_in_file_window"] = w] :
        adj \in {T, NULL}, fm \in Tri, w \in {T, F} }

\* Rows with one critical field null, or a zone id null or not positive.
CritDefects ==
    { <<"pickup_at", NULL>>, <<"dropoff_at", NULL>>, <<"trip_distance_mi", NULL>>,
      <<"total_amount", NULL>>, <<"pu_location_id", NULL>>,
      <<"pu_location_id", Some(0)>>, <<"do_location_id", NULL>>,
      <<"do_location_id", Some(-1)>> }

SilverCritRows ==
    { [SilverBaseRow EXCEPT ![d[1]] = d[2], !["qa_is_adjustment"] = adj] :
        d \in CritDefects, adj \in {T, F} }

\* Rows with a null adjustment flag and a critical defect.
SilverNullAdjCritRows ==
    { [SilverBaseRow EXCEPT ![d[1]] = d[2], !["qa_is_adjustment"] = NULL] :
        d \in { <<"pickup_at", NULL>>, <<"pu_location_id", Some(0)>> } }

SilverRows == SilverFlagRows \cup SilverCritRows \cup SilverNullAdjCritRows

SeqsUpTo(S, n) == UNION { [1..k -> S] : k \in 0..n }

\* Artifacts whose column set is not the expected one: a column missing, and an
\* experimental column left over.
MismatchedArtifacts ==
    { [exists |-> TRUE, cols |-> EXPECTED \ {"dup_key"},
       rows |-> << [c \in EXPECTED \ {"dup_key"} |-> SilverBaseRow[c]] >>],
      [exists |-> TRUE, cols |-> EXPECTED \cup {"qa_is_fee_misflag"},
       rows |-> << [c \in EXPECTED \cup {"qa_is_fee_misflag"} |->
                      IF c = "qa_is_fee_misflag" THEN F ELSE SilverBaseRow[c]] >>] }

SilverArtifacts ==
    { [exists |-> TRUE, cols |-> EXPECTED, rows |-> rs] :
        rs \in SeqsUpTo(SilverRows, MaxBronzeRows) }
    \cup MismatchedArtifacts \cup {Absent}

NoSilver == [p \in PartNames |-> Absent]

BronzeIdle ==
    /\ rawDir = {}
    /\ bpc = "idle"
    /\ files = <<>>
    /\ fidx = 0
    /\ writer = "none"
    /\ totals = NoTotals
    /\ berr = NoError
    /\ prior = Absent
    /\ runs = 1

InitSilver ==
    /\ bronze \in SilverArtifacts
    /\ silver = NoSilver
    /\ spc = "start"
    /\ report = NoReport
    /\ BronzeIdle
    /\ KeyIdle
    /\ DownloadIdle

SpecSilver == InitSilver /\ [][NextSilver]_vars

(***************************************************************************)
(* Claims about split_silver                                               *)
(***************************************************************************)
SilverDone == spc = "done"

\* The Bronze positions a partition file holds.
Srcs(p) == {silver[p].rows[k].src : k \in 1..Len(silver[p].rows)}

\* C1: after split_silver completes on an artifact that passes the schema
\* check, the row counts of rejected, administrative, clean and anomalous add
\* up to the number of Bronze rows (fare-miss is not counted).
C1_Coverage ==
    SilverDone =>
        Len(silver["rejected"].rows) + Len(silver["admin"].rows)
            + Len(silver["clean"].rows) + Len(silver["anom"].rows)
        = Len(bronze.rows)

\* C1's case: a completed run over two rows, one with a null adjustment flag
\* and one with a null critical field.
C1_Witness ==
    /\ SilverDone
    /\ Len(bronze.rows) = 2
    /\ \E i \in 1..2 : bronze.rows[i]["qa_is_adjustment"] = NULL
    /\ \E i \in 1..2 : bronze.rows[i]["pickup_at"] = NULL

\* C2: rejected, administrative, clean and anomalous are pairwise disjoint: no
\* Bronze record is written to more than one of them.
C2_Disjoint ==
    SilverDone =>
        \A p, q \in {"rejected", "admin", "clean", "anom"} :
            p # q => Srcs(p) \cap Srcs(q) = {}

\* C2's case: a completed run that wrote a rejected and an administrative
\* record, the rejected one carrying a true adjustment flag.
C2_Witness ==
    /\ SilverDone
    /\ Srcs("admin") # {}
    /\ \E i \in Srcs("rejected") : bronze.rows[i]["qa_is_adjustment"] = T

\* Every critical field present and both zone ids positive, read off the
\* Bronze row.
CritOk(r) ==
    /\ r["pickup_at"] # NULL /\ r["dropoff_at"] # NULL
    /\ r["trip_distance_mi"] # NULL /\ r["total_amount"] # NULL
    /\ r["pu_location_id"] # NULL /\ r["do_location_id"] # NULL
    /\ Val(r["pu_location_id"]) > 0 /\ Val(r["do_location_id"]) > 0

\* C3: every fare-miss record is a clean record and no anomalous record, and a
\* record that is neither rejected nor administrative and has a true
\* fare-mismatch flag is written to clean and to fare-miss, whatever its
\* window, distance and speed flags.
C3_FareMissInClean ==
    SilverDone =>
        /\ Srcs("fmiss") \subseteq Srcs("clean")
        /\ Srcs("fmiss") \cap Srcs("anom") = {}
        /\ \A i \in 1..Len(bronze.rows) :
              (/\ CritOk(bronze.rows[i])
               /\ bronze.rows[i]["qa_is_adjustment"] # T
               /\ bronze.rows[i]["qa_is_fare_mismatch"] = T)
              => (i \in Srcs("clean") /\ i \in Srcs("fmiss"))

\* C3's case: a fare-miss record that is outside the file window, and one that
\* is a speed outlier.
C3_Witness ==
    /\ SilverDone
    /\ \E i \in Srcs("fmiss") : bronze.rows[i]["qa_in_file_window"] = F
    /\ \E i \in Srcs("fmiss") : bronze.rows[i]["qa_outlier_speed"] = T

\* C11: a Bronze record whose adjustment flag is null is treated as not
\* administrative: it is never written to the administrative partition, it
\* raises no error (split_silver stops only on an absent artifact or a column
\* mismatch), and it is written to rejected when a critical field is missing
\* and to exactly one of clean and anomalous otherwise.
C11_NullAdjustmentNotAdmin ==
    /\ spc = "fatal" => (~bronze.exists \/ bronze.cols # EXPECTED)
    /\ SilverDone =>
          \A i \in 1..Len(bronze.rows) :
              bronze.rows[i]["qa_is_adjustment"] = NULL =>
                  /\ i \notin Srcs("admin")
                  /\ ~CritOk(bronze.rows[i]) =>
                        (i \in Srcs("rejected") /\ i \notin Srcs("clean") \cup Srcs("anom"))
                  /\ CritOk(bronze.rows[i]) =>
                        /\ i \notin Srcs("rejected")
                        /\ (i \in Srcs("clean")) # (i \in Srcs("anom"))

\* C11's case: a completed run over a record with a null adjustment flag that
\* went to clean and one with a null adjustment flag that went to rejected.
C11_Witness ==
    /\ SilverDone
    /\ \E i \in Srcs("clean") : bronze.rows[i]["qa_is_adjustment"] = NULL
    /\ \E i \in Srcs("rejected") : bronze.rows[i]["qa_is_adjustment"] = NULL

Rejectable(r) ==
    \/ r["pickup_at"] = NULL \/ r["dropoff_at"] = NULL
    \/ r["trip_distance_mi"] = NULL \/ r["total_amount"] = NULL
    \/ r["pu_location_id"] = NULL \/ r["do_location_id"] = NULL
    \/ (r["pu_location_id"] # NULL /\ Val(r["pu_location_id"]) <= 0)
    \/ (r["do_location_id"] # NULL /\ Val(r["do_location_id"]) <= 0)

\* C25: the classification follows the precedence rejected, administrative:
\* the rejected partition holds exactly the records with a critical field
\* missing; such a record with a true adjustment flag is in rejected only; the
\* administrative partition holds exactly the records with a true adjustment
\* flag and no critical field missing.
C25_Precedence ==
    SilverDone =>
        \A i \in 1..Len(bronze.rows) :
            LET r == bronze.rows[i]
            IN  /\ (i \in Srcs("rejected")) <=> Rejectable(r)
                /\ (Rejectable(r) /\ r["qa_is_adjustment"] = T) =>
                      \A p \in PartNames \ {"rejected"} : i \notin Srcs(p)
                /\ (i \in Srcs("admin")) <=> (r["qa_is_adjustment"] = T /\ ~Rejectable(r))

\* C25's case: a completed run over a record with a pickup zone of 0 and a
\* true adjustment flag, written to rejected, and a record with a true
\* adjustment flag and every critical field present, written to
\* administrative.
C25_Witness ==
    /\ SilverDone
    /\ Len(bronze.rows) = 2
    /\ bronze.rows[1]["pu_location_id"] = Some(0)
    /\ bronze.rows[1]["qa_is_adjustment"] = T
    /\ Srcs("rejected") = {1}
    /\ Srcs("admin") = {2}

(***************************************************************************)
(* split_silver over artifacts of any column set, partitions left over     *)
(***************************************************************************)
\* Columns that are not in the contract.
ExtraCols == {"qa_is_fee_misflag", "fee_misflag_delta", "tip_pct"}

\* An artifact of one row with the given columns.
ArtifactWith(cols) ==
    [exists |-> TRUE, cols |-> cols,
     rows |-> << [c \in cols |-> IF c \in EXPECTED THEN SilverBaseRow[c] ELSE NULL] >>]

\* Artifacts with no or one expected column missing and no or one unexpected
\* column present (the one with neither has the expected columns).
SchemaArtifacts ==
    { ArtifactWith((EXPECTED \ m) \cup x) :
        m \in {{}} \cup {{c} : c \in EXPECTED},
        x \in {{}} \cup {{c} : c \in ExtraCols} }

\* The partition files an earlier run over one plain row left behind.
StaleSilver == SilverOutputs(<< SilverBaseRow >>)

InitSchema ==
    /\ bronze \in SchemaArtifacts \cup {Absent}
    /\ silver \in {NoSilver, StaleSilver}
    /\ spc = "start"
    /\ report = NoReport
    /\ BronzeIdle
    /\ KeyIdle
    /\ DownloadIdle

SpecSchema == InitSchema /\ [][NextSilver]_vars

\* C12: whenever the artifact's column set differs from the expected one (a
\* column missing or an unexpected column present), split_silver ends in a
\* fatal error that lists exactly the missing and the extra columns, and none
\* of the five partition files is written or modified.
C12_SchemaMismatchFatal ==
    [][(spc = "start" /\ bronze.exists /\ bronze.cols # EXPECTED)
       => /\ spc' = "fatal"
          /\ report'.missing = EXPECTED \ bronze.cols
          /\ report'.extra = bronze.cols \ EXPECTED
          /\ (report'.missing # {} \/ report'.extra # {})
          /\ silver' = silver
          /\ bronze' = bronze]_vars

\* C12's case: the run stopped on an artifact with a column missing and an
\* unexpected column, the partition files of the earlier run still in place.
C12_Witness ==
    /\ spc = "fatal"
    /\ report.missing # {}
    /\ report.extra # {}
    /\ silver = StaleSilver

(***************************************************************************)
(* split_silver while another process rewrites the Bronze artifact         *)
(***************************************************************************)
\* The largest number of rows of the artifacts of these runs.
MaxReplRows == 2

\* A clean, an administrative and a rejected record.
ReplRows ==
    { SilverBaseRow,
      [SilverBaseRow EXCEPT !["qa_is_adjustment"] = T],
      [SilverBaseRow EXCEPT !["pickup_at"] = NULL] }

ReplArtifacts ==
    { [exists |-> TRUE, cols |-> EXPECTED, rows |-> rs] :
        rs \in SeqsUpTo(ReplRows, MaxReplRows) }

\* A build_bronze run of another process completes between the sinks and the
\* count of split_silver: the Bronze path holds another artifact.
BronzeReplaced ==
    /\ spc = "written"
    /\ bronze' \in ReplArtifacts \ {bronze}
    /\ UNCHANGED <<bronzeVars,
                 silverVars, keyVars, downloadVars>>

NextSilverSteps ==
    SilverWrite \/ SilverCount \/ BronzeReplaced
    \/ SplitSilverSchemaMismatch \/ SplitSilverNoBronze

InitSilverSteps ==
    /\ bronze \in ReplArtifacts \cup MismatchedArtifacts \cup {Absent}
    /\ silver = NoSilver
    /\ spc = "start"
    /\ report = NoReport
    /\ BronzeIdle
    /\ KeyIdle
    /\ DownloadIdle

SpecSilverSteps == InitSilverSteps /\ [][NextSilverSteps]_vars

\* C20: a coverage mismatch (total rows # rejected + administrative + clean +
\* anomalous) is a warning only: the report step never aborts, it warns
\* exactly when the counts differ, it completes the report with the counts of
\* the five files, and it leaves the five partition files as written.
C20_CoverageWarningOnly ==
    /\ [](spc = "done" =>
            /\ report.warning
                 <=> (report.total_rows
                      # report.n_rej + report.n_adm + report.n_clean + report.n_anom)
            /\ \A p \in PartNames : silver[p].exists
            /\ report.n_rej = Len(silver["rejected"].rows)
            /\ report.n_adm = Len(silver["admin"].rows)
            /\ report.n_anom = Len(silver["anom"].rows)
            /\ report.n_clean = Len(silver["clean"].rows)
            /\ report.n_fmiss = Len(silver["fmiss"].rows))
    /\ [](report.warning => spc = "done")
    /\ [][(spc = "written" /\ spc' # "written") => (spc' = "done" /\ silver' = silver)]_vars

\* C20's case: the report was completed with the warning, over partitions
\* that hold a row.
C20_Witness ==
    /\ spc = "done"
    /\ report.warning
    /\ report.total_rows # report.n_rej + report.n_adm + report.n_clean + report.n_anom
    /\ Len(silver["clean"].rows) > 0

(***************************************************************************)
(* Raw input directories                                                   *)
(***************************************************************************)
\* The columns of a raw TLC yellow-taxi file.
RawCols ==
    {"VendorID", "tpep_pickup_datetime", "tpep_dropoff_datetime",
     "passenger_count", "trip_distance", "RatecodeID", "store_and_fwd_flag",
     "PULocationID", "DOLocationID", "payment_type", "fare_amount", "extra",
     "mta_tax", "tip_amount", "tolls_amount", "improvement_surcharge",
     "total_amount", "congestion_surcharge", "Airport_fee", "cbd_congestion_fee"}

\* A plain trip of ten minutes and 2.5 miles on the 15th of the file's month.
RawBaseRow(ym) ==
    [VendorID |-> Some(1),
     tpep_pickup_datetime |-> Some(MonthStart(ym[1], ym[2]) + 14 * 86400),
     tpep_dropoff_datetime |-> Some(MonthStart(ym[1], ym[2]) + 14 * 86400 + 600),
     passenger_count |-> Some(1), trip_distance |-> Some(250),
     RatecodeID |-> Some(1), store_and_fwd_flag |-> Some("N"),
     PULocationID |-> Some(100), DOLocationID |-> Some(200),
     payment_type |-> Some(1), fare_amount |-> Some(1000), extra |-> Some(0),
     mta_tax |-> Some(0), tip_amount |-> Some(0), tolls_amount |-> Some(0),
     improvement_surcharge |-> Some(0), total_amount |-> Some(1000),
     congestion_surcharge |-> Some(0), Airport_fee |-> Some(0),
     cbd_congestion_fee |-> Some(0)]

RawFile(name, cols, rows) == [name |-> name, cols |-> cols, rows |-> rows]

\* The raw key fields of a record, in the order of key_cols.
RawKeyCols == << "VendorID", "tpep_pickup_datetime", "tpep_dropoff_datetime",
                 "PULocationID", "DOLocationID", "fare_amount", "trip_distance" >>

RawKey(r) == [i \in 1..Len(RawKeyCols) |-> r[RawKeyCols[i]]]

\* The largest number of rows of a file of the dedup runs.
MaxFileRows == 3

\* Records for the dedup: the plain trip, one record differing from it in each
\* key field in turn, one differing in a field outside the key, and one whose
\* key differs but hashes to the same value.
DedupRows ==
    LET b == RawBaseRow(<<2024, 1>>)
    IN  { b,
          [b EXCEPT !["VendorID"] = Some(2)],
          [b EXCEPT !["tpep_pickup_datetime"] = Some(Val(@) + 60)],
          [b EXCEPT !["tpep_dropoff_datetime"] = Some(Val(@) + 60)],
          [b EXCEPT !["PULocationID"] = Some(101)],
          [b EXCEPT !["DOLocationID"] = Some(201)],
          [b EXCEPT !["fare_amount"] = Some(1100), !["total_amount"] = Some(1100)],
          [b EXCEPT !["trip_distance"] = Some(300)],
          [b EXCEPT !["passenger_count"] = Some(2)],
          [b EXCEPT !["VendorID"] = Some(1 + HashSpace)] }

\* Directories of the dedup runs: one January file of up to MaxFileRows
\* records; also the empty directory and a file whose name has no YYYY-MM.
DedupDirs ==
    { {RawFile(FileNames[1], RawCols, rs)} : rs \in SeqsUpTo(DedupRows, MaxFileRows) }
    \cup { {}, {RawFile(FileNames[2], RawCols, << RawBaseRow(<<2024, 1>>) >>)} }

SilverIdle ==
    /\ silver = NoSilver
    /\ spc = "start"
    /\ report = NoReport

BronzeRunStart ==
    /\ bpc = "idle"
    /\ files = <<>>
    /\ fidx = 0
    /\ writer = "none"
    /\ totals = NoTotals
    /\ berr = NoError
    /\ prior = Absent
    /\ runs = 1

InitDedup ==
    /\ KeyIdle
    /\ rawDir \in DedupDirs
    /\ bronze = Absent
    /\ BronzeRunStart
    /\ SilverIdle
    /\ DownloadIdle

SpecDedup == InitDedup /\ [][NextBronze]_vars

(***************************************************************************)
(* Claims about the per-file dedup                                         *)
(***************************************************************************)
\* A finished run over a directory of one file.
OneFileDone == bpc = "done" /\ Len(files) = 1

\* The dup_keys of the rows of the run's only file.
FileDupKeys == {MarkedRows(files[1])[i]["dup_key"] : i \in 1..Len(files[1].rows)}

\* The first row, in sort order, of the file's rows with dup_key k.
FirstOfKey(k) ==
    LET m == MarkedRows(files[1])
        i == CHOOSE i \in 1..Len(m) :
                 /\ m[i]["dup_key"] = k
                 /\ \A j \in 1..Len(m) : m[j]["dup_key"] = k => i <= j
    IN  m[i]

\* C4: the per-file dedup keeps exactly one row per dedup key, the first in
\* sort order: every key of the file is the key of exactly one written row,
\* which carries the pickup and dropoff of that first row.
C4_KeepFirstPerKey ==
    OneFileDone =>
        /\ totals.written = Cardinality(FileDupKeys)
        /\ \A k \in FileDupKeys :
              \E j \in 1..Len(bronze.rows) :
                  /\ bronze.rows[j]["dup_key"] = k
                  /\ bronze.rows[j]["pickup_at"] = FirstOfKey(k)["pickup_at"]
                  /\ bronze.rows[j]["dropoff_at"] = FirstOfKey(k)["dropoff_at"]

\* The rows of the run's only file whose key tuple no other row of the file
\* has, and whose hash no other row of the file has.
UniqueInFile(f, i) ==
    \A j \in 1..Len(f.rows) :
        j # i => /\ RawKey(f.rows[j]) # RawKey(f.rows[i])
                 /\ HashKey(RawKey(f.rows[j])) # HashKey(RawKey(f.rows[i]))

\* The written rows that carry the key fields of raw record r of file f.
WrittenOf(f, r) ==
    {j \in 1..Len(bronze.rows) :
        /\ KeyTuple(bronze.rows[j]) = RawKey(r)
        /\ bronze.rows[j]["passenger_count"] = r["passenger_count"]
        /\ bronze.rows[j]["source_file"] = Some(f.name)}

\* C5: a record that differs in a key field from every other record of its
\* file, with no hash collision, is not marked duplicate and is written; in a
\* file of two such records neither is marked and both are written.
C5_DistinctKept ==
    OneFileDone =>
        \A i \in 1..Len(files[1].rows) :
            UniqueInFile(files[1], i) =>
                /\ WrittenOf(files[1], files[1].rows[i]) # {}
                /\ \A j \in WrittenOf(files[1], files[1].rows[i]) :
                       bronze.rows[j]["qa_is_duplicate_in_file"] = F

\* C5's case: a file of two records that differ only in the trip distance,
\* both written.
C5_Witness ==
    /\ OneFileDone
    /\ Len(files[1].rows) = 2
    /\ files[1].rows[1]["trip_distance"] # files[1].rows[2]["trip_distance"]
    /\ files[1].rows[1]["VendorID"] = files[1].rows[2]["VendorID"]
    /\ UniqueInFile(files[1], 1)
    /\ Len(bronze.rows) = 2

(***************************************************************************)
(* Runs of build_bronze over several files                                 *)
(***************************************************************************)
\* The largest number of files of a raw directory.
MaxFiles == 3

\* The largest number of rows of a file of such a directory.
MaxRunRows == 2

\* The plain trip and one with another vendor.
RunRows ==
    LET b == RawBaseRow(<<2024, 1>>)
    IN  { b, [b EXCEPT !["VendorID"] = Some(2)] }

\* Directories of up to MaxFiles files with different names, each of up to
\* MaxRunRows records; the same record can be in several files.
RunDirs ==
    UNION { { {RawFile(n, RawCols, rs[n]) : n \in N} :
                rs \in [N -> SeqsUpTo(RunRows, MaxRunRows)] } :
            N \in {M \in SUBSET FileNameSet : Cardinality(M) <= MaxFiles} }

\* The raw file an earlier run read.
StaleRaw == RawFile(FileNames[3], RawCols, << RawBaseRow(<<2024, 12>>) >>)

\* An artifact left by an earlier run (on the same installation).
\* The steps of lines 239-257 where both hash expressions could be built.
StaleBronze ==
    LET keyed1 == DupKeyWith(AllHashes, PrepareRow(StaleRaw, StaleRaw.rows[1]))
        kept == DropDuplicates(MarkDuplicates(SortRows(<< keyed1 >>)))
    IN  [exists |-> TRUE, cols |-> ContractColSet,
         rows |-> [i \in 1..Len(kept) |->
                      cast_and_select_contract(AddLineage(kept[i], 2024, 12))]]

InitRun ==
    /\ KeyIdle
    /\ rawDir \in RunDirs
    /\ bronze \in {Absent, StaleBronze}
    /\ BronzeRunStart
    /\ SilverIdle
    /\ DownloadIdle

SpecRun == InitRun /\ [][NextRuns]_vars

(***************************************************************************)
(* Claims about runs over several files                                    *)
(***************************************************************************)
RunDone == bpc = "done"

\* C6: duplicate detection is scoped to one file: when two different files of
\* a run each hold a record with the same key tuple (and each record is the
\* only one with that key in its own file), both records are written, each
\* with its own source file, and neither is marked duplicate.
C6_CrossFileKept ==
    RunDone =>
        \A a, b \in 1..Len(files) :
            a # b =>
                \A i \in 1..Len(files[a].rows), j \in 1..Len(files[b].rows) :
                    (/\ RawKey(files[a].rows[i]) = RawKey(files[b].rows[j])
                     /\ UniqueInFile(files[a], i)
                     /\ UniqueInFile(files[b], j))
                    => /\ WrittenOf(files[a], files[a].rows[i]) # {}
                       /\ \A k \in WrittenOf(files[a], files[a].rows[i]) :
                              bronze.rows[k]["qa_is_duplicate_in_file"] = F

\* C6's case: a January and a December file holding the same record, and
\* nothing else; the artifact holds it twice, once from each file.
C6_Witness ==
    /\ RunDone
    /\ Len(files) = 2
    /\ Len(files[1].rows) = 1
    /\ files[1].rows = files[2].rows
    /\ Len(bronze.rows) = 2
    /\ bronze.rows[1]["dup_key"] = bronze.rows[2]["dup_key"]
    /\ bronze.rows[1]["source_file"] # bronze.rows[2]["source_file"]
    /\ totals.dups = 0

\* The names of the first n files of the run.
NamesBefore(n) == {files[k].name : k \in 1..(n - 1)}

\* C13: a file whose name has no YYYY-MM makes build_bronze raise a fatal error
\* that names the file and ends the run: the loop never gets past such a file
\* (no skip-and-continue), the artifact holds rows of the files before it
\* only, the run never completes, and after the error nothing happens but a
\* new invocation.
C13_BadNameAborts ==
    /\ [](bpc # "idle" => \A k \in 1..(fidx - 1) : RegexYearMonth(files[k].name) # NoMatch)
    /\ []((bpc = "loop" /\ fidx <= Len(files) /\ RegexYearMonth(files[fidx].name) = NoMatch)
            => ENABLED BronzeFileFatal /\ ~ENABLED BronzeFile /\ ~ENABLED BronzeFinish)
    /\ []((bpc = "fatal" /\ berr.kind = "cannot_parse_year_month")
            => /\ fidx <= Len(files)
               /\ RegexYearMonth(files[fidx].name) = NoMatch
               /\ berr.file = files[fidx].name
               /\ \A j \in 1..Len(bronze.rows) :
                      Val(bronze.rows[j]["source_file"]) \in NamesBefore(fidx))
    /\ [](bpc = "done" => \A f \in rawDir : RegexYearMonth(f.name) # NoMatch)
    /\ [][bpc = "fatal" => bpc' = "idle"]_vars

\* C13's case: a run of three files that stopped at the second, whose name has
\* no YYYY-MM, with the rows of the first written and a third file with rows
\* left unread.
C13_Witness ==
    /\ bpc = "fatal"
    /\ berr = [kind |-> "cannot_parse_year_month", file |-> FileNames[2]]
    /\ Len(files) = 3
    /\ fidx = 2
    /\ Len(bronze.rows) > 0
    /\ Len(files[3].rows) > 0

\* The tables of the first n files of fs, one after the other.
RECURSIVE TablesUpTo(_, _)
TablesUpTo(fs, n) ==
    IF n = 0 THEN <<>> ELSE TablesUpTo(fs, n - 1) \o FileTable(fs[n])

\* C14: a run that aborts with a fatal error on the k-th file (k > 1) exposes
\* no partial result: the writer is closed and the output path holds no
\* artifact made of the rows of the first k-1 files.
C14_NoPartialArtifact ==
    (bpc = "fatal" /\ fidx > 1) =>
        /\ writer = "closed"
        /\ ~(bronze.exists /\ bronze.rows = TablesUpTo(files, fidx - 1))

\* C15: on a directory without parquet files build_bronze raises a fatal error
\* at once and retains no output: its first and only step raises
\* FileNotFoundError, it opens no writer, counts nothing, writes or changes no
\* artifact, and never completes, so no artifact (none produced, and none
\* left over from an earlier run) is reported as the run's result.
C15_EmptyDirFatal ==
    /\ [](rawDir = {} =>
            /\ bpc \in {"idle", "fatal"}
            /\ writer = "none"
            /\ totals = NoTotals
            /\ (bpc = "fatal" => berr = [kind |-> "no_parquet_files", file |-> ""]))
    /\ [][(rawDir = {} /\ bpc = "idle") => (bpc' = "fatal" /\ bronze' = bronze)]_vars

\* C15's case: the run on an empty directory has raised, with an artifact of
\* an earlier run at the output path.
C15_Witness ==
    /\ rawDir = {}
    /\ bpc = "fatal"
    /\ berr.kind = "no_parquet_files"
    /\ bronze = StaleBronze

\* C16: the artifact is fully replaced: after a successful run it holds
\* exactly the tables of that run's input files, in file order, and no row of
\* the artifact that was at the output path before the run.
C16_FullyReplaced ==
    bpc = "done" =>
        /\ bronze.exists
        /\ files = SortedFiles(rawDir)
        /\ bronze.rows = TablesUpTo(files, Len(files))
        /\ (runs = 1 /\ prior = StaleBronze) =>
              \A j \in 1..Len(bronze.rows) : bronze.rows[j] # StaleBronze.rows[1]

\* C16's case: a first run that found an artifact of an earlier run at the
\* output path and completed with rows of its own.
C16_Witness ==
    /\ bpc = "done"
    /\ runs = 1
    /\ prior = StaleBronze
    /\ Len(bronze.rows) > 0

\* How often row r occurs among rows.
CountOf(rows, r) == Cardinality({j \in 1..Len(rows) : rows[j] = r})

\* The same rows with the same multiplicities.
SameBag(a, b) ==
    /\ Len(a) = Len(b)
    /\ \A j \in 1..Len(a) : CountOf(a, a[j]) = CountOf(b, a[j])

\* The sum of total_amount over rows (nulls skipped).
RECURSIVE Revenue(_)
Revenue(rows) ==
    IF rows = <<>> THEN 0
    ELSE Val(FillNull(Head(rows)["total_amount"], 0)) + Revenue(Tail(rows))

\* C17: build_bronze is idempotent: a successful run on the directory and
\* output path of the run before it, both unchanged, leaves an artifact with
\* the row count, the multiset of rows and the aggregate sums of the artifact
\* it found.
C17_Idempotent ==
    (bpc = "done" /\ runs >= 2) =>
        /\ prior.exists
        /\ Len(bronze.rows) = Len(prior.rows)
        /\ SameBag(bronze.rows, prior.rows)
        /\ Revenue(bronze.rows) = Revenue(prior.rows)

\* C17's case: a second run over two files has completed with at least two
\* rows.
C17_Witness ==
    /\ bpc = "done"
    /\ runs = 2
    /\ Len(files) = 2
    /\ Len(bronze.rows) >= 2
    /\ prior.exists

\* The written rows i < j are in order: the file of i sorts before the file of
\* j, or they are of one file and the dup_key of i, a string, sorts before or
\* with that of j.
InOrder(ri, rj) ==
    \/ CmpName(Val(ri["source_file"]), Val(rj["source_file"])) < 0
    \/ /\ ri["source_file"] = rj["source_file"]
       /\ CmpStr(Val(ri["dup_key"]), Val(rj["dup_key"])) <= 0

\* C21: build_bronze takes the files in ascending order of their names, one at
\* a time: each pass of the loop appends the table of the next file of the
\* sorted list and moves on by one; in the artifact every row of a file comes
\* before every row of a file that sorts after it, and the rows of one file
\* are in ascending order of dup_key (the order of the key as a string).
C21_FileOrder ==
    /\ [](bpc # "idle" =>
            /\ {files[k] : k \in 1..Len(files)} = rawDir
            /\ \A a, b \in 1..Len(files) :
                   a < b => CmpName(files[a].name, files[b].name) < 0)
    /\ [][(bpc = "loop" /\ fidx' # fidx) =>
            /\ fidx' = fidx + 1
            /\ \E t \in {FileTable(files[fidx])} :
                   /\ bronze'.rows = (IF writer = "none" THEN <<>> ELSE bronze.rows) \o t
                   /\ \A k \in 1..Len(t) : t[k]["source_file"] = Some(files[fidx].name)]_vars
    /\ [](bronze.exists =>
            \A i, j \in 1..Len(bronze.rows) :
                i < j => InOrder(bronze.rows[i], bronze.rows[j]))

\* C21's case: a completed run over two files of two records each, the first
\* file holding its records in descending order of dup_key; the artifact holds
\* the four rows, those of the first file first and its two rows swapped.
C21_Witness ==
    /\ bpc = "done"
    /\ Len(files) = 2
    /\ Len(files[1].rows) = 2
    /\ Len(bronze.rows) = 4
    /\ bronze.rows[1]["vendor_id"] = files[1].rows[2]["VendorID"]
    /\ bronze.rows[2]["vendor_id"] = files[1].rows[1]["VendorID"]
    /\ bronze.rows[1]["vendor_id"] # bronze.rows[2]["vendor_id"]
    /\ bronze.rows[2]["source_file"] # bronze.rows[3]["source_file"]

\* The number of rows of the first n files of the run.
RECURSIVE RowsOfFirst(_)
RowsOfFirst(n) == IF n = 0 THEN 0 ELSE RowsOfFirst(n - 1) + Len(files[n].rows)

\* C28: after every file processed and at the end of a successful run, rows
\* read = rows written + duplicates removed, rows read is the number of rows
\* of the files processed, and rows written is the number of rows the output
\* artifact holds.
C28_TotalsBalance ==
    bpc \in {"loop", "done"} =>
        /\ totals.in = totals.written + totals.dups
        /\ totals.in = RowsOfFirst(fidx - 1)
        /\ totals.written = Len(bronze.rows)

\* C28's case: a completed run over two files, three rows read, two of them
\* removed as duplicates and one written.
C28_Witness ==
    /\ bpc = "done"
    /\ Len(files) = 2
    /\ totals = [in |-> 3, written |-> 1, dups |-> 2]
    /\ Len(bronze.rows) = 1

\* C29: every row of the artifact has qa_is_duplicate_in_file = false, and no
\* two rows written from one file share a dup_key.
C29_WrittenNotDuplicate ==
    bronze.exists =>
        /\ \A j \in 1..Len(bronze.rows) : bronze.rows[j]["qa_is_duplicate_in_file"] = F
        /\ \A i, j \in 1..Len(bronze.rows) :
              (i # j /\ bronze.rows[i]["source_file"] = bronze.rows[j]["source_file"])
              => bronze.rows[i]["dup_key"] # bronze.rows[j]["dup_key"]

\* C29's case: a completed run in which one file lost two rows as duplicates
\* and the other file had two rows with different keys written.
C29_Witness ==
    /\ bpc = "done"
    /\ Len(files) = 2
    /\ totals.dups = 2
    /\ Len(bronze.rows) = 2
    /\ bronze.rows[1]["source_file"] = bronze.rows[2]["source_file"]
    /\ bronze.rows[1]["dup_key"] # bronze.rows[2]["dup_key"]

(***************************************************************************)
(* Raw files for the derivations                                           *)
(***************************************************************************)
\* The window the flag is specified against: the first of the month minus two
\* days to the first of the next month plus two days.
ClaimWindow(ym) ==
    LET nextYm == IF ym[2] = 12 THEN <<ym[1] + 1, 1>> ELSE <<ym[1], ym[2] + 1>>
    IN  << MonthStart(ym[1], ym[2]) - 2 * 86400,
           MonthStart(nextYm[1], nextYm[2]) + 2 * 86400 >>

\* Times at and around the ends of the window, and mid-month.
DeriveTimes(ym) ==
    LET w == ClaimWindow(ym)
    IN  { w[1] - 86400, w[1] - 1, w[1], MonthStart(ym[1], ym[2]) + 14 * 86400,
          w[2], w[2] + 1 }

\* Records with every pair of those times, or no time, as pickup and dropoff.
TimeRows(ym) ==
    LET ts == {Some(t) : t \in DeriveTimes(ym)} \cup {NULL}
    IN  { [RawBaseRow(ym) EXCEPT !["tpep_pickup_datetime"] = p,
                                 !["tpep_dropoff_datetime"] = d] :
            p \in ts, d \in ts }

\* Records with distances and durations at and around the outlier thresholds,
\* and records of 15 minutes at 80 mph and just above.
MotionRows(ym) ==
    { [RawBaseRow(ym) EXCEPT
          !["trip_distance"] = dist,
          !["tpep_dropoff_datetime"] =
              Some(Val(RawBaseRow(ym)["tpep_pickup_datetime"]) + dur)] :
        dist \in {NULL, Some(-100), Some(0), Some(250), Some(1400), Some(15000),
                  Some(15001)},
        dur \in {0, 59, 60, 600, 21600, 21601} }
    \cup { [RawBaseRow(ym) EXCEPT
               !["trip_distance"] = Some(dist),
               !["tpep_dropoff_datetime"] =
                   Some(Val(RawBaseRow(ym)["tpep_pickup_datetime"]) + 900)] :
             dist \in {2000, 2001} }

\* The raw names of the nine monetary components.
RawMoneyCols ==
    {"fare_amount", "extra", "mta_tax", "tip_amount", "tolls_amount",
     "improvement_surcharge", "congestion_surcharge", "Airport_fee",
     "cbd_congestion_fee"}

\* Records with one amount null or negative under three payment types, with
\* every other payment type, with a total next to the mismatch threshold, with
\* all nine components null, and with a tip and no fare.
MoneyRows(ym) ==
    { [RawBaseRow(ym) EXCEPT ![c] = v, !["payment_type"] = pt] :
        c \in RawMoneyCols \cup {"total_amount"}, v \in {NULL, Some(-100)},
        pt \in {Some(1), Some(3), NULL} }
    \cup { [RawBaseRow(ym) EXCEPT !["payment_type"] = Some(pt)] :
             pt \in {0, 2, 4, 5, 6} }
    \cup { [RawBaseRow(ym) EXCEPT !["total_amount"] = Some(t)] : t \in {1050, 1051} }
    \cup { [n \in DOMAIN RawBaseRow(ym) |->
                IF n \in RawMoneyCols THEN NULL ELSE RawBaseRow(ym)[n]],
             [RawBaseRow(ym) EXCEPT !["fare_amount"] = NULL, !["tip_amount"] = Some(150),
                                    !["total_amount"] = Some(150)] }

\* Records with a count or an id outside the Int16 range, and with no flag.
OddRows(ym) ==
    { [RawBaseRow(ym) EXCEPT !["passenger_count"] = Some(40000)],
      [RawBaseRow(ym) EXCEPT !["VendorID"] = Some(-40000)],
      [RawBaseRow(ym) EXCEPT !["store_and_fwd_flag"] = NULL] }

DeriveRows(ym) == TimeRows(ym) \cup MotionRows(ym) \cup MoneyRows(ym) \cup OddRows(ym)

\* A file of one record that lacks column c.
FileWithout(name, c) ==
    LET b == RawBaseRow(RegexYearMonth(name))
    IN  RawFile(name, RawCols \ {c}, << [n \in (DOMAIN b) \ {c} |-> b[n]] >>)

\* A file of one record that has a column the contract does not know.
FileWithExtra(name, c) ==
    LET b == RawBaseRow(RegexYearMonth(name))
    IN  RawFile(name, RawCols \cup {c},
                << [n \in (DOMAIN b) \cup {c} |-> IF n = c THEN NULL ELSE b[n]] >>)

DeriveNames == {FileNames[1], FileNames[3]}

\* Directories of one file of one record; files that lack one monetary column,
\* or passenger_count; files with an unknown column; the empty directory; a
\* file whose name has no YYYY-MM.
DeriveDirs ==
    { {RawFile(n, RawCols, <<r>>)} : n \in DeriveNames, r \in DeriveRows(<<2024, 1>>) }
    \cup { {RawFile(FileNames[3], RawCols, <<r>>)} : r \in DeriveRows(<<2024, 12>>) }
    \cup { {FileWithout(n, c)} :
             n \in DeriveNames, c \in RawMoneyCols \cup {"passenger_count"} }
    \cup { {FileWithExtra(n, c)} : n \in DeriveNames, c \in {"ehail_fee", "trip_type"} }
    \cup { {}, {RawFile(FileNames[2], RawCols, << RawBaseRow(<<2024, 1>>) >>)} }

InitDerive ==
    /\ KeyIdle
    /\ rawDir \in DeriveDirs
    /\ bronze = Absent
    /\ BronzeRunStart
    /\ SilverIdle
    /\ DownloadIdle

SpecDerive == InitDerive /\ [][NextBronze]_vars

(***************************************************************************)
(* Claims about the monetary columns and the QA flags                      *)
(***************************************************************************)
\* A finished run over one file of one record, which was written.
DeriveDone == bpc = "done" /\ Len(files) = 1 /\ Len(bronze.rows) = 1

\* C7: when one of the nine monetary columns is absent from a raw file, every
\* Bronze row written from the file has 0.0, not null, in that column.
C7_AbsentMoneyZero ==
    DeriveDone =>
        \A c \in RawMoneyCols :
            c \notin files[1].cols =>
                \A j \in 1..Len(bronze.rows) : bronze.rows[j][CANON(c)] = Some(0)

Negative(x) == x # NULL /\ Val(x) < 0

\* C8: the adjustment flag of a record is true exactly when one of the nine
\* monetary components is negative (tip_amount among them), or total_amount is
\* negative, or payment_type is 3, 4 or 6.
C8_AdjustmentFlag ==
    DeriveDone =>
        LET r == bronze.rows[1]
        IN  (r["qa_is_adjustment"] = T)
            <=> \/ \E c \in MoneyColSet : Negative(r[c])
                \/ Negative(r["total_amount"])
                \/ (r["payment_type"] # NULL /\ Val(r["payment_type"]) \in {3, 4, 6})

InClaimWindow(x, ym) ==
    /\ x # NULL
    /\ Val(x) >= ClaimWindow(ym)[1]
    /\ Val(x) <= ClaimWindow(ym)[2]

\* C9: the in-file-window flag is true exactly when pickup and dropoff both lie
\* in [first of the file's month - 2 days, first of the next month + 2 days],
\* ends included; for month 12 the upper end is January 1 of the next year
\* plus 2 days.
C9_WindowInclusive ==
    DeriveDone =>
        LET r == bronze.rows[1]
            ym == RegexYearMonth(files[1].name)
        IN  (r["qa_in_file_window"] = T)
            <=> (InClaimWindow(r["pickup_at"], ym) /\ InClaimWindow(r["dropoff_at"], ym))

\* C9's case: a December 2024 record picked up at 2024-11-29 00:00 and dropped
\* off at 2025-01-03 00:00, the two ends of the window, flagged inside.
C9_Witness ==
    /\ DeriveDone
    /\ files[1].name = FileNames[3]
    /\ bronze.rows[1]["pickup_at"] = Some(786153600)
    /\ bronze.rows[1]["dropoff_at"] = Some(789177600)
    /\ bronze.rows[1]["qa_in_file_window"] = T

\* The flags of the run's record as their comparisons give them.
RawFlagsOfRun ==
    LET ym == RegexYearMonth(files[1].name)
    IN  RawFlags(BaseRow(files[1], files[1].rows[1]), ym[1], ym[2])

\* C10: after compute_derivations_and_flags each of the five QA flags is true
\* or false, never null, and a flag whose comparison gives null is false; the
\* Bronze row carries the same flags.
C10_FlagsNeverNull ==
    DeriveDone =>
        LET out == PrepareRow(files[1], files[1].rows[1])
        IN  \A q \in FlagNames :
                /\ out[q] \in {T, F}
                /\ (RawFlagsOfRun[q] = NULL => out[q] = F)
                /\ bronze.rows[1][q] = out[q]

\* C10's case: a record whose window and speed comparisons give null (it has
\* no pickup time) and whose two flags are false.
C10_Witness ==
    /\ DeriveDone
    /\ RawFlagsOfRun["qa_in_file_window"] = NULL
    /\ RawFlagsOfRun["qa_outlier_speed"] = NULL
    /\ bronze.rows[1]["qa_in_file_window"] = F
    /\ bronze.rows[1]["qa_outlier_speed"] = F

\* A value of the given contract type, or null.
TypeOk(dtype, x) ==
    \/ x = NULL
    \/ CASE dtype = "Int16" -> Val(x) >= -32768 /\ Val(x) <= 32767
          [] dtype = "Int32" -> Val(x) >= -2147483647 - 1 /\ Val(x) <= 2147483647
          [] dtype = "Boolean" -> Val(x) \in BOOLEAN
          [] OTHER -> TRUE

\* C18: every table build_bronze appends has exactly the contract's columns,
\* in the contract's order and with the contract's types, whatever the input
\* file, and the artifact of a successful run passes the schema check of
\* split_silver: the schema of the select is the contract, every written row
\* has the contract's columns and values of their types, and the artifact's
\* column set is the one split_silver expects.
C18_ContractSchema ==
    /\ Len(ContractSchema) = Cardinality(ContractColSet)
    /\ \A i \in 1..Len(ContractSchema) : ContractSchema[i][1] = CONTRACT_COLS[i]
    /\ writer # "none" =>
          /\ bronze.exists
          /\ bronze.cols = ContractColSet
          /\ \A j \in 1..Len(bronze.rows) :
                /\ DOMAIN bronze.rows[j] = ContractColSet
                /\ \A i \in 1..Len(ContractSchema) :
                      TypeOk(ContractSchema[i][2], bronze.rows[j][ContractSchema[i][1]])
    /\ bpc = "done" =>
          /\ bronze.exists
          /\ bronze.cols = EXPECTED
          /\ ENABLED SplitSilver
          /\ ~ENABLED SplitSilverSchemaMismatch

\* C18's case: a successful run over a file that has a column the contract
\* does not know.
C18_Witness ==
    /\ DeriveDone
    /\ "ehail_fee" \in files[1].cols
    /\ bronze.cols = EXPECTED
    /\ DOMAIN bronze.rows[1] = EXPECTED

\* C22: speed_mph is null, never zero, whenever duration_min is null or not
\* positive, and is 60 * trip distance / duration_min whenever duration_min is
\* positive (null when the distance is null).
C22_SpeedNullOrQuotient ==
    DeriveDone =>
        LET r == bronze.rows[1]
            dur == r["duration_min"]
            dist == r["trip_distance_mi"]
            speed == r["speed_mph"]
        IN  /\ (dur = NULL \/ Val(dur) <= 0) => speed = NULL
            /\ (dur # NULL /\ Val(dur) > 0) =>
                  IF dist = NULL THEN speed = NULL
                  \* 60 * (dist / 100) / (dur / 60) = 36 * dist / dur
                  ELSE speed = Some(<< 36 * Val(dist), Val(dur) >>)

\* C22's case: a record dropped off at its pickup time, 2.5 miles on the
\* meter: the duration is zero and the speed is null.
C22_Witness ==
    /\ DeriveDone
    /\ bronze.rows[1]["duration_min"] = Some(0)
    /\ bronze.rows[1]["trip_distance_mi"] = Some(250)
    /\ bronze.rows[1]["speed_mph"] = NULL

\* The components of row r named in S, nulls counted as zero, added up.
RECURSIVE SumOf(_, _)
SumOf(r, S) ==
    IF S = {} THEN 0
    ELSE LET c == CHOOSE c \in S : TRUE
         IN  (IF r[c] = NULL THEN 0 ELSE Val(r[c])) + SumOf(r, S \ {c})

\* C23: manualTotal is never null and is the sum of the nine monetary
\* components with every null component counted as zero; it is 0 when all
\* nine are null.
C23_ManualTotal ==
    DeriveDone =>
        LET r == bronze.rows[1]
        IN  /\ r["manualTotal"] # NULL
            /\ Val(r["manualTotal"]) = SumOf(r, MoneyColSet)
            /\ (\A c \in MoneyColSet : r[c] = NULL) => r["manualTotal"] = Some(0)

\* C23's case: a record whose nine components are all null, with a total of
\* zero.
C23_Witness ==
    /\ DeriveDone
    /\ \A c \in MoneyColSet : bronze.rows[1][c] = NULL
    /\ bronze.rows[1]["manualTotal"] = Some(0)

\* C24: the speed-outlier flag is true exactly when duration_min < 1 minute,
\* or duration_min > 360 minutes, or speed_mph > 80; so a record of zero or
\* negative duration, whose speed is null, is flagged, and a record with a
\* duration of 1 to 360 minutes and a null speed is not.
C24_SpeedOutlier ==
    DeriveDone =>
        LET r == bronze.rows[1]
            dur == r["duration_min"]
            speed == r["speed_mph"]
        IN  /\ (r["qa_outlier_speed"] = T)
                <=> \/ (dur # NULL /\ Val(dur) < 60)
                    \/ (dur # NULL /\ Val(dur) > 360 * 60)
                    \/ (speed # NULL /\ Val(speed)[1] > 80 * Val(speed)[2])
            /\ r["qa_outlier_speed"] \in {T, F}
            /\ (dur # NULL /\ Val(dur) <= 0) =>
                  (speed = NULL /\ r["qa_outlier_speed"] = T)
            /\ (dur # NULL /\ Val(dur) >= 60 /\ Val(dur) <= 360 * 60 /\ speed = NULL) =>
                  r["qa_outlier_speed"] = F

\* C24's case: a record dropped off before it was picked up: the duration is
\* negative, the speed null and the flag true.
C24_Witness ==
    /\ DeriveDone
    /\ bronze.rows[1]["duration_min"] # NULL
    /\ Val(bronze.rows[1]["duration_min"]) < 0
    /\ bronze.rows[1]["speed_mph"] = NULL
    /\ bronze.rows[1]["qa_outlier_speed"] = T

(***************************************************************************)
(* build_dup_key called on its own (scripts/bronze_build.py, lines 151-172)*)
(***************************************************************************)
MaxKeyRows == 2

\* The columns of the frames: the seven key columns and two others.
KeyFrameCols == KeyColSet \cup {"passenger_count", "payment_type"}

KeyBaseRow ==
    [vendor_id |-> Some(1), pickup_at |-> Some(1000), dropoff_at |-> Some(1600),
     pu_location_id |-> Some(100), do_location_id |-> Some(200),
     fare_amount |-> Some(1250), trip_distance_mi |-> Some(250),
     passenger_count |-> Some(1), payment_type |-> Some(1)]

\* The trip; the trip with other values outside the key; the trip without a
\* vendor; a trip of another vendor whose key has the hash of the first.
KeyRows ==
    { KeyBaseRow,
      [KeyBaseRow EXCEPT !["passenger_count"] = Some(2), !["payment_type"] = Some(2)],
      [KeyBaseRow EXCEPT !["vendor_id"] = NULL, !["passenger_count"] = Some(2)],
      [KeyBaseRow EXCEPT !["vendor_id"] = Some(1 + HashSpace)] }

\* The frames have every column, or lack one of the key columns.
KeyColChoices == {KeyFrameCols} \cup {KeyFrameCols \ {c} : c \in KeyColSet}

KeyFrame(cs, rs) ==
    [cols |-> cs, rows |-> [i \in 1..Len(rs) |-> [n \in cs |-> rs[i][n]]]]

\* The same records handed over twice, in frames that can differ in their
\* columns.
KeyBatches ==
    { << KeyFrame(cs1, rs), KeyFrame(cs2, rs) >> :
        cs1 \in KeyColChoices, cs2 \in KeyColChoices,
        rs \in SeqsUpTo(KeyRows, MaxKeyRows) }

InitKey ==
    /\ hashCaps \in SUBSET AllHashes
    /\ batch \in KeyBatches
    /\ keyed = <<>>
    /\ rawDir = {}
    /\ bronze = Absent
    /\ BronzeRunStart
    /\ SilverIdle
    /\ DownloadIdle

\* Lines 156-172 on the next frame: the frame with the missing key columns
\* and dup_key added.
KeyCall ==
    /\ Len(keyed) < Len(batch)
    /\ HashChoice(hashCaps) # "none"
    /\ LET df == batch[Len(keyed) + 1]
       IN  keyed' = Append(keyed,
                [raised |-> FALSE,
                 cols |-> df.cols \cup KeyColSet \cup {"dup_key"},
                 rows |-> [i \in 1..Len(df.rows) |-> build_dup_key(df.rows[i])]])
    /\ UNCHANGED <<hashCaps, batch, bronze, bronzeVars, silverVars, downloadVars>>

\* Lines 166-169 when the second hash expression cannot be built either: its
\* exception leaves build_dup_key.
KeyCallRaises ==
    /\ Len(keyed) < Len(batch)
    /\ HashChoice(hashCaps) = "none"
    /\ keyed' = Append(keyed, [raised |-> TRUE, cols |-> {}, rows |-> <<>>])
    /\ UNCHANGED <<hashCaps, batch, bronze, bronzeVars, silverVars, downloadVars>>

NextKey ==
    \/ KeyCall
    \/ KeyCallRaises

SpecKey == InitKey /\ [][NextKey]_vars

\* Two keyed records agree on the seven key columns.
SameKeyFields(o1, o2) == \A k \in KeyColSet : o1[k] = o2[k]

\* C26: the dedup key is a function of the seven key fields only: two records
\* with equal values in those fields get equal keys, in the same call or in
\* another call, whatever their other columns are; a key column the frame
\* lacks is added as null and hashed as null, and build_dup_key does not raise
\* for it (it raises only when no hash expression can be built).
C26_KeyOfSevenFields ==
    /\ \A c \in 1..Len(keyed) :
          /\ keyed[c].raised <=> (HashChoice(hashCaps) = "none")
          /\ ~keyed[c].raised =>
                /\ Len(keyed[c].rows) = Len(batch[c].rows)
                /\ \A i \in 1..Len(keyed[c].rows) :
                      /\ keyed[c].rows[i]["dup_key"] # NULL
                      /\ \A k \in KeyColSet \ batch[c].cols :
                            keyed[c].rows[i][k] = NULL
                      /\ \A n \in batch[c].cols :
                            keyed[c].rows[i][n] = batch[c].rows[i][n]
    /\ \A c1, c2 \in 1..Len(keyed) :
          \A i \in 1..Len(keyed[c1].rows), j \in 1..Len(keyed[c2].rows) :
              SameKeyFields(keyed[c1].rows[i], keyed[c2].rows[j]) =>
                  keyed[c1].rows[i]["dup_key"] = keyed[c2].rows[j]["dup_key"]

\* C26's case: the first frame lacks vendor_id, the second has it; a record
\* of the first call and a record of the second whose vendor is null, with
\* another passenger count, got the same key.
C26_Witness ==
    /\ Len(keyed) = 2
    /\ ~keyed[1].raised
    /\ "vendor_id" \notin batch[1].cols
    /\ "vendor_id" \in batch[2].cols
    /\ \E i \in 1..Len(keyed[1].rows), j \in 1..Len(keyed[2].rows) :
          /\ keyed[2].rows[j]["vendor_id"] = NULL
          /\ keyed[1].rows[i]["vendor_id"] = NULL
          /\ keyed[1].rows[i]["passenger_count"] # keyed[2].rows[j]["passenger_count"]
          /\ SameKeyFields(keyed[1].rows[i], keyed[2].rows[j])
          /\ keyed[1].rows[i]["dup_key"] = keyed[2].rows[j]["dup_key"]
          /\ keyed[1].rows[i]["dup_key"] # NULL

(***************************************************************************)
(* build_bronze on installations that differ in the hash expressions       *)
(***************************************************************************)
\* No file, one file of up to MaxRunRows records (a January or a December
\* file), a file whose name holds no month, or a January and a December file.
HashDirs ==
    { {} }
    \cup { {RawFile(n, RawCols, rs)} :
              n \in FileNameSet, rs \in SeqsUpTo(RunRows, MaxRunRows) }
    \cup { {RawFile(FileNames[1], RawCols, rs), StaleRaw} :
              rs \in SeqsUpTo(RunRows, MaxRunRows) }

InitHash ==
    /\ hashCaps \in SUBSET AllHashes
    /\ batch = NoBatch
    /\ keyed = <<>>
    /\ rawDir \in HashDirs
    /\ bronze = Absent
    /\ BronzeRunStart
    /\ SilverIdle
    /\ DownloadIdle

SpecHash == InitHash /\ [][NextBronze]_vars

\* The dup_key a record gets from the hash expression named.
KeyUnder(choice, row) == Some(Digits(HashWith(choice, KeyTuple(row))))

\* C27: whichever hash expressions the installation offers, the run does not
\* fail for the lack of one and every record written has a dedup key: the
\* native hash when there is one, else the structural hash, else a
\* cryptographic hash of the concatenated fields.
C27_FallbackChain ==
    /\ berr.kind # "hash_unavailable"
    /\ \A i \in 1..Len(bronze.rows) :
          /\ bronze.rows[i]["dup_key"] # NULL
          /\ ("native" \in hashCaps) =>
                bronze.rows[i]["dup_key"] = KeyUnder("native", bronze.rows[i])
          /\ ("native" \notin hashCaps /\ "struct" \in hashCaps) =>
                bronze.rows[i]["dup_key"] = KeyUnder("struct", bronze.rows[i])

\* The run where neither hash expression can be built has ended on its first
\* file, with nothing written.
HashRunFailed ==
    /\ hashCaps = {}
    /\ bpc = "fatal"
    /\ berr.kind = "hash_unavailable"
    /\ ~bronze.exists

\* Where only the structural hash can be built, the run ends normally and
\* the records written carry the structural hash.
StructFallbackKeys ==
    (hashCaps = {"struct"} /\ bpc = "done") =>
        /\ berr = NoError
        /\ bronze.exists
        /\ \A i \in 1..Len(bronze.rows) :
              bronze.rows[i]["dup_key"] = KeyUnder("struct", bronze.rows[i])

(***************************************************************************)
(* download (scripts/read_raw_by_month.py, lines 39-62)                    *)
(***************************************************************************)
\* Line 53: a file of fewer bytes than this is refused.
MinSize == 10240

\* The largest number of chunks of a response body.
MaxChunks == 2

\* The sizes of the chunks resp.read gives, in bytes: with them a body can be
\* one byte short of MinSize, have exactly MinSize bytes, or exceed it.
ChunkSizes == {1, 10239, 10240}

\* The bytes of a file or of a body: the sum of its chunks.
RECURSIVE Size(_)
Size(data) == IF data = <<>> THEN 0 ELSE Head(data) + Size(Tail(data))

\* A destination left by an earlier download, and a ".part" file left by a
\* download that was killed.
OldDest == [exists |-> TRUE, data |-> << 20480 >>]
StaleTmp == [exists |-> TRUE, data |-> << 512 >>]

\* What the request meets.  status "error": urlopen raises (HTTPError,
\* URLError, a timeout).  Otherwise body is what the server announced, of
\* which the connection delivers the first `sent` chunks; when it delivers
\* fewer, it ends with a reset (end = "reset": the next resp.read raises) or
\* with a graceful close (end = "eof": for a body of announced length the
\* next resp.read returns b"", as at the end of a whole body).
Responses ==
    { [status |-> "error", body |-> <<>>, sent |-> 0, end |-> "eof"] }
    \cup { [status |-> "ok", body |-> b, sent |-> Len(b), end |-> "eof"] :
              b \in SeqsUpTo(ChunkSizes, MaxChunks) }
    \cup UNION { { [status |-> "ok", body |-> b, sent |-> k, end |-> e] :
                      k \in 0..(Len(b) - 1), e \in {"eof", "reset"} } :
                 b \in SeqsUpTo(ChunkSizes, MaxChunks) }

InitDownload ==
    /\ KeyIdle
    /\ rawDir = {}
    /\ bronze = Absent
    /\ BronzeRunStart
    /\ SilverIdle
    /\ dest \in {NoFile, OldDest}
    /\ tmp \in {NoFile, StaleTmp}
    /\ resp \in Responses
    /\ dpc = "start"
    /\ derr = "none"

\* Line 45: urlopen answers and open(tmp_path, "wb") creates or truncates the
\* temporary file.
DlOpen ==
    /\ dpc = "start"
    /\ resp.status = "ok"
    /\ tmp' = [exists |-> TRUE, data |-> <<>>]
    /\ dpc' = "reading"
    /\ UNCHANGED <<dest, resp, derr, bronze, bronzeVars, silverVars, keyVars>>

\* Line 45: urlopen raises; open(tmp_path) is not reached.
DlOpenFails ==
    /\ dpc = "start"
    /\ resp.status = "error"
    /\ derr' = "url_error"
    /\ dpc' = "finally"
    /\ UNCHANGED <<dest, tmp, resp, bronze, bronzeVars, silverVars, keyVars>>

\* Lines 46-51: a chunk read and written.  The chunks written so far are the
\* chunks read so far.
DlChunk ==
    /\ dpc = "reading"
    /\ Len(tmp.data) < resp.sent
    /\ tmp' = [tmp EXCEPT !.data = Append(@, resp.body[Len(tmp.data) + 1])]
    /\ UNCHANGED <<dest, resp, dpc, derr, bronze, bronzeVars, silverVars, keyVars>>

\* Lines 46, 51: resp.read raises on a connection that was reset.
DlReadRaises ==
    /\ dpc = "reading"
    /\ Len(tmp.data) = resp.sent
    /\ resp.sent < Len(resp.body)
    /\ resp.end = "reset"
    /\ derr' = "connection_error"
    /\ dpc' = "finally"
    /\ UNCHANGED <<dest, tmp, resp, bronze, bronzeVars, silverVars, keyVars>>

\* resp.read has returned b"": the loop of lines 47-51 is over.
LoopOver ==
    /\ dpc = "reading"
    /\ Len(tmp.data) = resp.sent
    /\ (resp.sent = Len(resp.body) \/ resp.end = "eof")

\* Lines 53-54: the file is smaller than MinSize.
DlTooSmall ==
    /\ LoopOver
    /\ Size(tmp.data) < MinSize
    /\ derr' = "too_small"
    /\ dpc' = "finally"
    /\ UNCHANGED <<dest, tmp, resp, bronze, bronzeVars, silverVars, keyVars>>

\* Line 55: os.replace moves the temporary file onto the destination.
DlReplace ==
    /\ LoopOver
    /\ Size(tmp.data) >= MinSize
    /\ dest' = [exists |-> TRUE, data |-> tmp.data]
    /\ tmp' = NoFile
    /\ dpc' = "finally"
    /\ UNCHANGED <<resp, derr, bronze, bronzeVars, silverVars, keyVars>>

\* Line 55: os.replace raises; nothing is moved.
DlReplaceFails ==
    /\ LoopOver
    /\ Size(tmp.data) >= MinSize
    /\ derr' = "os_error"
    /\ dpc' = "finally"
    /\ UNCHANGED <<dest, tmp, resp, bronze, bronzeVars, silverVars, keyVars>>

\* Lines 58-62: what unlink can make of the temporary file: it is removed, or
\* unlink raises, the exception is passed over and the file stays.
UnlinkOutcomes(file) == IF file.exists THEN {NoFile, file} ELSE {file}

\* Lines 56-62: the finally block, then download returns, or the exception
\* leaves it.
DlFinally ==
    /\ dpc = "finally"
    /\ tmp' \in UnlinkOutcomes(tmp)
    /\ dpc' = IF derr = "none" THEN "returned" ELSE "raised"
    /\ UNCHANGED <<dest, resp, derr, bronze, bronzeVars, silverVars, keyVars>>

NextDownload ==
    \/ DlOpen
    \/ DlOpenFails
    \/ DlChunk
    \/ DlReadRaises
    \/ DlTooSmall
    \/ DlReplace
    \/ DlReplaceFails
    \/ DlFinally

SpecDownload == InitDownload /\ [][NextDownload]_vars

\* C30: download is atomic with respect to the destination: once it has
\* returned or raised no ".part" file remains; the destination is created or
\* replaced only when the whole response was read and the file has at least
\* MinSize bytes; and on a failure the destination is what it was before.
C30_AtomicDownload ==
    /\ [](dpc \in {"returned", "raised"} => ~tmp.exists)
    /\ [][dest' # dest =>
            /\ tmp.data = resp.body
            /\ Size(tmp.data) >= MinSize
            /\ dest' = [exists |-> TRUE, data |-> resp.body]]_vars
    /\ [][dest' # dest => derr' = "none"]_vars
    /\ [](derr # "none" => dest \in {NoFile, OldDest})

\* What the code does keep: the destination changes only by the move of a
\* temporary file of at least MinSize bytes whose read loop ended without an
\* exception, and a download that raises leaves the destination as it was.
DestinationGuard ==
    /\ [][dest' # dest =>
            /\ LoopOver
            /\ Size(tmp.data) >= MinSize
            /\ dest' = [exists |-> TRUE, data |-> tmp.data]
            /\ derr' = "none"]_vars
    /\ [](derr # "none" => dest \in {NoFile, OldDest})

\* A destination that holds less than the server announced.
TruncatedInstalled ==
    /\ dpc = "returned"
    /\ dest.exists
    /\ dest.data # resp.body
    /\ Size(dest.data) < Size(resp.body)

\* A temporary file that outlives the call.
PartLeftBehind ==
    /\ dpc = "raised"
    /\ tmp.exists

====
